---- MODULE Spec2Model ----
(***************************************************************************)
(* Verification model of the concurrent orchestration engine:              *)
(*   - FileLockManager  (packages/core/src/core/fileLockManager.ts 1-220)  *)
(*   - StreamAggregator (packages/core/src/core/fileLockManager.ts 221-311)*)
(***************************************************************************)
EXTENDS Integers, Sequences, FiniteSets, TLC

(***************************************************************************)
(* Bounds of the model.                                                    *)
(***************************************************************************)
\* number of acquireLock invocations in one run
MaxAcquire == 3

(***************************************************************************)
(* Inputs of the FileLockManager.  A path is the sequence of its           *)
(* characters, so that basename/dirname/replace are computed, not assumed. *)
(***************************************************************************)
PathA == <<"d", "/", "e", "/", "f">>
PathB == <<"d", "_", "e", "/", "f">>
PathC == <<"/", "/", "h">>
Paths == {PathA, PathB, PathC}
CallIds == {"call1", "call2"}

\* config.getFileLockingConfig().lockDirectory
lockDirectory == <<"/", "l">>

NoLock == [lockId |-> 0]
\* a lockId no generateLockId call ever returned
UnknownLockId == 0
NoRelease == "other"
\* the lockIds releaseLock is called with: UnknownLockId and the ids issued so
\* far; a call takes at most two (one by processQueue, one by its poll)
LockIds == 0..(2 * MaxAcquire)

VARIABLES
    locks,       \* FileLockManager.locks: path -> FileLock (NoLock: no entry)
    queue,       \* FileLockManager.queue: path -> LockRequest[] (<<>>: no entry or [])
    files,       \* lock files present in lockDirectory
    nextLockId,  \* source of fresh lock ids (generateLockId)
    acq,         \* one record per acquireLock invocation: its promise and timers;
                 \* released: releaseLock was called with the lock it returned;
                 \* popped: processQueue shifted its request before its timeout
    last         \* whether the releaseLock call that ran last matched a lock
                 \* ("hit", "miss"); NoRelease when another operation ran last

lockVars == <<locks, queue, files, nextLockId, acq, last>>

VARIABLES
    calls,         \* the ConcurrentCall[] given to the constructor
    streams,       \* the generators given to mergeStreams, as scripts
    callMetadata,  \* StreamAggregator.callMetadata (Map, in insertion order)
    gens,          \* activeGenerators: callId, done, and the generator's position
    cur,           \* index of the generator whose next() is awaited or whose
                   \* event the consumer holds; 0: merge returned
    held,          \* the merge is suspended at a yield: "event" (line 286),
                   \* "error" (line 303); "none": it is not
    output,        \* the events mergeStreams has yielded
    origin         \* for each yielded event, the stream and position it came from

aggVars == <<calls, streams, callMetadata, gens, cur, held, output, origin>>

VARIABLES
    generators,   \* the array given to mergeStreamsWithMetadata: scripts with
                  \* callId, originalPrompt and executionId
    promises,     \* the promises array: for each entry the generator (index)
                  \* and which of its next() calls (req) the promise is for
    served,       \* per generator, how many of its next() calls have settled
    winner,       \* position in promises of the promise that settled the
                  \* Promise.race being awaited; 0 while that race is pending
    mxPc,         \* where mergeStreamsWithMetadata is: "race" (awaiting
                  \* Promise.race), "yielded" (suspended at yield), "returned",
                  \* "aborted" (threw 'Stream merging aborted')
    mxOutput,     \* the events mergeStreamsWithMetadata has yielded
    mxOrigin,     \* for each yielded event, the generator and request it came from
    aborted,      \* signal.aborted
    caught        \* the generators whose rejection reached the catch block

mxVars == <<generators, promises, served, winner, mxPc, mxOutput, mxOrigin,
            aborted, caught>>

VARIABLES
    defaultConfig,  \* RetryManager.defaultConfig
    retryContexts,  \* RetryManager.retryContexts: callId -> reference of a
                    \* RetryContext object (NoContext: no entry)
    contexts,       \* the RetryContext objects created so far, by reference
    executions      \* one record per executeWithRetry invocation: its local
                    \* variables, its position, and what it has done

retryVars == <<defaultConfig, retryContexts, contexts, executions>>

VARIABLES
    clientConfig,      \* what the client's Config answers
    sessionTurnCount,  \* GeminiClient.sessionTurnCount
    request,           \* the request parseConcurrentSyntax is called with
    analysis,          \* what that call returned
    execution,         \* what executeConcurrentStreams, called on its own, did
    clientCalls,       \* the sendMessageStream generators and the caller's
                       \* tryCompressChat calls that have not ended, each
                       \* where it is suspended, with its arguments and
                       \* what it has done so far
    ranTurn            \* number of invocations that ran a Turn

clientVars == <<clientConfig, sessionTurnCount, request, analysis, execution,
                clientCalls, ranTurn>>

VARIABLES
    chat,              \* GeminiClient.chat: the GeminiChat object and its history
    compression,       \* the tryCompressChat call of the caller that has
                       \* just ended: its arguments, the chat before and
                       \* after it, and how it ended; cleared by the
                       \* caller's next call
    setCalls           \* number of setHistory calls the caller has made

chatVars == <<chat, compression, setCalls>>

\* everything but the FileLockManager's state
nonLockVars == <<aggVars, mxVars, retryVars, clientVars, chatVars>>
\* everything but the StreamAggregator's state
nonAggVars == <<lockVars, mxVars, retryVars, clientVars, chatVars>>
\* everything but the StreamMultiplexer's state
nonMxVars == <<lockVars, aggVars, retryVars, clientVars, chatVars>>
\* everything but the RetryManager's state
nonRetryVars == <<lockVars, aggVars, mxVars, clientVars, chatVars>>
\* everything but the GeminiClient's routing state
nonClientVars == <<lockVars, aggVars, mxVars, retryVars, chatVars>>
\* everything but the state the client's calls in flight work on
nonSessionVars == <<lockVars, aggVars, mxVars, retryVars,
                    clientConfig, request, analysis, execution>>

vars == <<locks, queue, files, nextLockId, acq, last,
          calls, streams, callMetadata, gens, cur, held, output, origin,
          generators, promises, served, winner, mxPc, mxOutput, mxOrigin,
          aborted, caught,
          defaultConfig, retryContexts, contexts, executions,
          clientConfig, sessionTurnCount, request, analysis, execution,
          clientCalls, ranTurn,
          chat, compression, setCalls>>

(***************************************************************************)
(* Texts.  A string of the program is the sequence of its UTF-16 code      *)
(* units, so that its length is the length of the sequence.  A code unit   *)
(* is written as the string of its one character; the code units that no   *)
(* string of a module can hold (U+0000, those above U+00FF with a low byte *)
(* below 80, and the surrogates) are written "U+" and their four           *)
(* hexadecimal digits in capitals, as in "U+2028" and "U+200A".            *)
(***************************************************************************)
HexDigits ==
    {"0", "1", "2", "3", "4", "5", "6", "7", "8", "9", "A", "B", "C", "D", "E", "F"}

\* U+D800 to U+DBFF and U+DC00 to U+DFFF
HighSurrogates ==
    {"U+D" \o a \o b \o c : a \in {"8", "9", "A", "B"}, b \in HexDigits, c \in HexDigits}
LowSurrogates ==
    {"U+D" \o a \o b \o c : a \in {"C", "D", "E", "F"}, b \in HexDigits, c \in HexDigits}

(***************************************************************************)
(* path.basename / path.dirname (POSIX).                                   *)
(***************************************************************************)
\* the position of the last character of p that is not a slash, 0 when
\* there is none: where the scan from the end of the path meets a segment
LastOfSegment(p) ==
    LET S == {k \in 1..Len(p) : p[k] # "/"}
    IN  IF S = {} THEN 0 ELSE CHOOSE k \in S : \A j \in S : j <= k

\* the position of the last slash of p before position n, 0 when there is
\* none
SlashBefore(p, n) ==
    LET S == {k \in 1..(n - 1) : p[k] = "/"}
    IN  IF S = {} THEN 0 ELSE CHOOSE k \in S : \A j \in S : j <= k

\* path.basename(p): the last segment, trailing slashes left out
basename(p) ==
    LET end == LastOfSegment(p)
    IN  IF end = 0 THEN <<>> ELSE SubSeq(p, SlashBefore(p, end) + 1, end)

\* path.dirname(p): the path before the slash that starts the last segment.
\* The scan stops before the first character: a slash there is the root,
\* and the two slashes of //x are kept
dirname(p) ==
    LET hasRoot == p # <<>> /\ p[1] = "/"
        end == SlashBefore(p, LastOfSegment(p))
    IN  IF p = <<>> THEN <<".">>
        ELSE IF end <= 1 THEN (IF hasRoot THEN <<"/">> ELSE <<".">>)
        ELSE IF hasRoot /\ end = 2 THEN <<"/", "/">>
        ELSE SubSeq(p, 1, end - 1)

\* .replace(/\//g, '_').replace(/\\/g, '_')
ReplaceSeparators(s) ==
    [k \in 1..Len(s) |-> IF s[k] = "/" \/ s[k] = "\\" THEN "_" ELSE s[k]]

getLockFilePath(filePath) ==
    lockDirectory \o <<"/">> \o ReplaceSeparators(dirname(filePath))
        \o <<"_">> \o basename(filePath) \o <<".", "l", "o", "c", "k">>

isLocked(filePath) == locks[filePath] # NoLock

getLockInfo(filePath) == locks[filePath]

\* fs.writeFileSync(lockFilePath, callId, { flag: 'wx' }) succeeds
CanCreateLockFile(fs, lockFilePath) == lockFilePath \notin fs

\* releaseLock without the lockId comparison: any live lock matches
MatchAnyLock(lk, lockId) == {p \in Paths : lk[p] # NoLock}

\* the entries of the lock map that releaseLock's loop matches
MatchingPaths(lk, lockId) ==
    {p \in Paths : lk[p] # NoLock /\ lk[p].lockId = lockId}

\* index of the first queued request with this callId, 0 when there is none
\* (queue.findIndex(req => req.callId === callId), shifted by one)
FindIndex(q, callId) ==
    LET S == {k \in 1..Len(q) : q[k].callId = callId}
    IN  IF S = {} THEN 0 ELSE CHOOSE k \in S : \A j \in S : k <= j

\* queue.splice(index, 1)
Splice(q, index) ==
    IF index = 0 THEN q
    ELSE SubSeq(q, 1, index - 1) \o SubSeq(q, index + 1, Len(q))

(***************************************************************************)
(* tryAcquireLock: the state after the call, and whether it threw.  The    *)
(* lock ids are fresh (generateLockId); acquiredAt is read by no operation *)
(* and is left out of the FileLock record.                                 *)
(***************************************************************************)
tryAcquireLock(lk, fs, id, filePath, callId) ==
    LET lockFilePath == getLockFilePath(filePath)
    IN  IF CanCreateLockFile(fs, lockFilePath)
        THEN [ok |-> TRUE,
              locks |-> [lk EXCEPT ![filePath] =
                            [path |-> filePath, lockId |-> id, callId |-> callId]],
              files |-> fs \cup {lockFilePath},
              next |-> id + 1]
        ELSE [ok |-> FALSE, locks |-> lk, files |-> fs, next |-> id]

LockInit ==
    /\ locks = [p \in Paths |-> NoLock]
    /\ queue = [p \in Paths |-> <<>>]
    /\ files = {}
    /\ nextLockId = 1
    /\ acq = <<>>
    /\ last = NoRelease

(***************************************************************************)
(* acquireLock(request)                                                    *)
(***************************************************************************)
AcquireLock(filePath, callId) ==
    /\ Len(acq) < MaxAcquire
    /\ LET i == Len(acq) + 1
       IN  IF isLocked(filePath)
           THEN /\ queue' = [queue EXCEPT ![filePath] =
                        Append(@, [path |-> filePath, callId |-> callId, req |-> i])]
                /\ acq' = Append(acq,
                        [path |-> filePath, callId |-> callId, wasLocked |-> TRUE,
                         promise |-> "pending", lockId |-> 0, error |-> "none",
                         timer |-> TRUE, interval |-> TRUE, released |-> FALSE, popped |-> FALSE])
                /\ UNCHANGED <<locks, files, nextLockId>>
           ELSE LET r == tryAcquireLock(locks, files, nextLockId, filePath, callId)
                IN  /\ locks' = r.locks
                    /\ files' = r.files
                    /\ nextLockId' = r.next
                    /\ acq' = Append(acq,
                          [path |-> filePath, callId |-> callId, wasLocked |-> FALSE,
                           promise |-> IF r.ok THEN "resolved" ELSE "rejected",
                           lockId |-> IF r.ok THEN nextLockId ELSE 0,
                           error |-> IF r.ok THEN "none" ELSE "failed",
                           timer |-> FALSE, interval |-> FALSE, released |-> FALSE, popped |-> FALSE])
                    /\ UNCHANGED queue
    /\ last' = NoRelease
    /\ UNCHANGED nonLockVars

(***************************************************************************)
(* The setTimeout callback of a waiting acquireLock (lines 66-74).         *)
(***************************************************************************)
Timeout(i) ==
    /\ i \in DOMAIN acq
    /\ acq[i].timer
    /\ LET p == acq[i].path
           index == FindIndex(queue[p], acq[i].callId)
       IN  queue' = [queue EXCEPT ![p] = Splice(@, index)]
    /\ acq' = [acq EXCEPT ![i].timer = FALSE,
                          ![i].promise = IF @ = "pending" THEN "rejected" ELSE @,
                          ![i].error = IF acq[i].promise = "pending" THEN "timeout" ELSE @]
    /\ last' = NoRelease
    /\ UNCHANGED <<locks, files, nextLockId>>
    /\ UNCHANGED nonLockVars

(***************************************************************************)
(* The setInterval callback of a waiting acquireLock (lines 77-87), at a   *)
(* tick that finds the path unlocked; a tick that finds it locked changes  *)
(* nothing.                                                                *)
(***************************************************************************)
PollTick(i) ==
    /\ i \in DOMAIN acq
    /\ acq[i].interval
    /\ ~isLocked(acq[i].path)
    /\ LET r == tryAcquireLock(locks, files, nextLockId, acq[i].path, acq[i].callId)
           pending == acq[i].promise = "pending"
       IN  /\ locks' = r.locks
           /\ files' = r.files
           /\ nextLockId' = r.next
           /\ acq' = [acq EXCEPT
                  ![i].interval = FALSE,
                  ![i].timer = FALSE,
                  ![i].promise = IF pending
                                 THEN (IF r.ok THEN "resolved" ELSE "rejected")
                                 ELSE @,
                  ![i].lockId = IF pending /\ r.ok THEN nextLockId ELSE @,
                  ![i].error = IF pending /\ ~r.ok THEN "failed" ELSE @]
           /\ last' = NoRelease
    /\ UNCHANGED queue
    /\ UNCHANGED nonLockVars

(***************************************************************************)
(* releaseLock(lockId), with processQueue (lines 100-127, 151-165).        *)
(***************************************************************************)
ReleaseLock(lockId) ==
    /\ lockId < nextLockId
    /\ LET M == MatchingPaths(locks, lockId)
       IN  IF M = {}
           THEN UNCHANGED <<locks, queue, files, nextLockId>>
           ELSE LET p == CHOOSE x \in M : TRUE
                    fs1 == files \ {getLockFilePath(p)}
                    lk1 == [locks EXCEPT ![p] = NoLock]
                IN  IF queue[p] = <<>>
                    THEN /\ locks' = lk1
                         /\ files' = fs1
                         /\ UNCHANGED <<queue, nextLockId>>
                    ELSE LET nextRequest == Head(queue[p])
                             r == tryAcquireLock(lk1, fs1, nextLockId,
                                                 nextRequest.path, nextRequest.callId)
                         IN  /\ queue' = [queue EXCEPT ![p] = Tail(@)]
                             /\ locks' = r.locks
                             /\ files' = r.files
                             /\ nextLockId' = r.next
    /\ LET M == MatchingPaths(locks, lockId)
           \* the request processQueue shifts, 0 when it shifts none
           shifted == IF M # {} /\ queue[CHOOSE x \in M : TRUE] # <<>>
                      THEN Head(queue[CHOOSE x \in M : TRUE]).req ELSE 0
       IN  acq' = [j \in DOMAIN acq |->
                     [acq[j] EXCEPT
                        !.released = @ \/ (acq[j].promise = "resolved"
                                            /\ acq[j].lockId = lockId),
                        !.popped = @ \/ (j = shifted /\ acq[j].timer)]]
    /\ last' = IF MatchingPaths(locks, lockId) # {} THEN "hit" ELSE "miss"
    /\ UNCHANGED nonLockVars

LockNext ==
    \/ \E p \in Paths, c \in CallIds : AcquireLock(p, c)
    \/ \E i \in 1..MaxAcquire : Timeout(i)
    \/ \E i \in 1..MaxAcquire : PollTick(i)
    \/ \E id \in LockIds : ReleaseLock(id)


(***************************************************************************)
(* StreamAggregator (fileLockManager.ts 221-311).                          *)
(***************************************************************************)
\* streams handed to one mergeStreams call
MaxStreams == 2
\* calls handed to the StreamAggregator constructor
MaxCalls == 2
\* events one stream emits before it completes, throws or stalls
MaxEvents == 2

\* JavaScript's undefined
Undefined == "undefined"

AggCallIds == {"call1", "call2"}
Prompts == {"ping", ""}
\* how a stream ends after its events: it returns, it throws, or its next()
\* never settles
Endings == {"done", "throw", "stall"}

SeqUpTo(S, n) == UNION {[1..k -> S] : k \in 0..n}

\* the events of stream i when it emits len events before it ends: Content
\* events, closed by a Finished event when the stream completes normally;
\* each value names its stream and position, so that no two events are equal
Script(i, len, end) ==
    [k \in 1..len |->
        [type |-> IF k = len /\ end = "done" THEN "finished" ELSE "content",
         value |-> <<"event", i, k>>]]

\* the stream lists of the model
StreamLists ==
    UNION {{[i \in 1..n |-> [events |-> Script(i, sh[i].len, sh[i].end),
                             end |-> sh[i].end]] :
              sh \in [1..n -> [len : 0..MaxEvents, end : Endings]]} :
           n \in 0..MaxStreams}

(***************************************************************************)
(* Map: a sequence of entries in insertion order; set() of an existing key *)
(* replaces the value and keeps the key's position.                        *)
(***************************************************************************)
MapHas(m, k) == \E j \in 1..Len(m) : m[j].key = k

MapSet(m, k, v) ==
    IF MapHas(m, k)
    THEN [j \in 1..Len(m) |-> IF m[j].key = k THEN [key |-> k, value |-> v] ELSE m[j]]
    ELSE Append(m, [key |-> k, value |-> v])

MapGet(m, k) ==
    IF MapHas(m, k)
    THEN (CHOOSE e \in {m[j] : j \in 1..Len(m)} : e.key = k).value
    ELSE Undefined

MapKeys(m) == [j \in 1..Len(m) |-> m[j].key]

RECURSIVE MapOfCalls(_, _)
MapOfCalls(cs, n) ==
    IF n = 0 THEN <<>>
    ELSE MapSet(MapOfCalls(cs, n - 1), cs[n].id, cs[n])

\* constructor: new Map(calls.map(call => [call.id, call]))
NewStreamAggregator(cs) == MapOfCalls(cs, Len(cs))

\* callIds[index] of Array.from(this.callMetadata.keys())
CallIdAt(meta, index) ==
    IF index <= Len(meta) THEN MapKeys(meta)[index] ELSE Undefined

\* originalCall?.prompt || genInfo.callId
CallTitle(meta, callId) ==
    IF MapHas(meta, callId) /\ MapGet(meta, callId).prompt # ""
    THEN MapGet(meta, callId).prompt
    ELSE callId

\* { ...value, callId, callTitle }
Enrich(value, callId, callTitle) ==
    [type |-> value.type, value |-> value.value,
     callId |-> callId, callTitle |-> callTitle]

\* the synthesized event of the catch block
ErrorEvent(callId, callTitle, errorMessage) ==
    [type |-> "error",
     value |-> <<"Error in call ", callId, ": ", errorMessage>>,
     callId |-> callId, callTitle |-> callTitle]

\* message of the Error a throwing stream raises
StreamErrorMessage == "stream error"

\* a merge that returns as soon as one generator is done or has failed
NextActiveStopsOnDone(g, i) ==
    LET any == {j \in DOMAIN g : ~g[j].done}
        later == {j \in any : j > i}
        Min(S) == CHOOSE j \in S : \A k \in S : j <= k
    IN  IF g[i].done THEN 0
        ELSE IF later # {} THEN Min(later)
        ELSE IF any # {} THEN Min(any)
        ELSE 0

\* a merge without the outer while loop: one pass over the generators
NextActiveOnePass(g, i) ==
    LET later == {j \in DOMAIN g : j > i /\ ~g[j].done}
    IN  IF later # {} THEN CHOOSE j \in later : \A k \in later : j <= k ELSE 0

\* the generator the loops of lines 270-272 reach after the body ran for index i
NextActive(g, i) ==
    LET later == {j \in DOMAIN g : j > i /\ ~g[j].done}
        any == {j \in DOMAIN g : ~g[j].done}
        Min(S) == CHOOSE j \in S : \A k \in S : j <= k
    IN  IF later # {} THEN Min(later)
        ELSE IF any # {} THEN Min(any)
        ELSE 0

AggInit ==
    /\ calls \in SeqUpTo([id : AggCallIds, prompt : Prompts], MaxCalls)
    /\ streams \in StreamLists
    /\ callMetadata = NewStreamAggregator(calls)
    /\ gens = [index \in 1..Len(streams) |->
                 [callId |-> CallIdAt(callMetadata, index), done |-> FALSE, pos |-> 0]]
    /\ cur = IF Len(streams) = 0 THEN 0 ELSE 1
    /\ held = "none"
    /\ output = <<>>
    /\ origin = <<>>

\* generator.next() resolves with a value: the event is enriched and
\* yielded, and the merge is suspended at the yield of line 286
AggYield ==
    /\ cur # 0
    /\ held = "none"
    /\ gens[cur].pos < Len(streams[cur].events)
    /\ LET g == gens[cur]
           value == streams[cur].events[g.pos + 1]
       IN  /\ output' = Append(output,
                  Enrich(value, g.callId, CallTitle(callMetadata, g.callId)))
           /\ origin' = Append(origin, <<cur, g.pos + 1>>)
           /\ gens' = [gens EXCEPT ![cur].pos = @ + 1]
    /\ held' = "event"
    /\ UNCHANGED <<calls, streams, callMetadata, cur>>
    /\ UNCHANGED nonAggVars

\* generator.next() resolves with done: genInfo.done = true, and the loops
\* go on to the next() call of the next generator
AggDone ==
    /\ cur # 0
    /\ held = "none"
    /\ gens[cur].pos = Len(streams[cur].events)
    /\ streams[cur].end = "done"
    /\ gens' = [gens EXCEPT ![cur].done = TRUE]
    /\ cur' = NextActive(gens', cur)
    /\ UNCHANGED <<calls, streams, callMetadata, held, output, origin>>
    /\ UNCHANGED nonAggVars

\* generator.next() rejects: the catch block yields an error event, and the
\* merge is suspended at the yield of line 303
AggThrow ==
    /\ cur # 0
    /\ held = "none"
    /\ gens[cur].pos = Len(streams[cur].events)
    /\ streams[cur].end = "throw"
    /\ LET g == gens[cur]
       IN  /\ output' = Append(output,
                  ErrorEvent(g.callId, CallTitle(callMetadata, g.callId),
                             StreamErrorMessage))
           /\ origin' = Append(origin, <<cur, 0>>)
    /\ held' = "error"
    /\ UNCHANGED <<calls, streams, callMetadata, gens, cur>>
    /\ UNCHANGED nonAggVars

\* the consumer asks for the next event: after the yield of the catch block
\* genInfo.done = true (line 304); the loops go on to the next() call of the
\* next generator, or the merge returns
AggResume ==
    /\ held # "none"
    /\ gens' = IF held = "error" THEN [gens EXCEPT ![cur].done = TRUE] ELSE gens
    /\ cur' = NextActive(gens', cur)
    /\ held' = "none"
    /\ UNCHANGED <<calls, streams, callMetadata, output, origin>>
    /\ UNCHANGED nonAggVars

AggIdle ==
    /\ calls = <<>>
    /\ streams = <<>>
    /\ callMetadata = <<>>
    /\ gens = <<>>
    /\ cur = 0
    /\ held = "none"
    /\ output = <<>>
    /\ origin = <<>>

(***************************************************************************)
(* StreamMultiplexer.mergeStreamsWithMetadata (streamMultiplexer.ts        *)
(* 29-100).  A promise of the promises array is generator.next().then(..)  *)
(* of one generator: it is identified by the generator (index) and by      *)
(* which of the generator's next() calls it is for (req).  An async        *)
(* generator serves its next() calls in the order they were made.          *)
(* Date.now() of _metadata.timestamp is read by no operation and left out. *)
(***************************************************************************)
\* events one mergeStreamsWithMetadata call yields in a run of the model
MaxYields == 3

\* the generators arrays of the model: the scripts of StreamLists, each with
\* a callId (call1 and call2 in turn), an originalPrompt and an executionId
GeneratorLists ==
    {[i \in 1..Len(sl) |->
        [events |-> sl[i].events, end |-> sl[i].end,
         callId |-> IF i % 2 = 1 THEN "call1" ELSE "call2",
         originalPrompt |-> <<"prompt", i>>,
         executionId |-> <<"exec", i>>]] : sl \in StreamLists}

\* what the k-th next() call on generator g settles with; "never": it does
\* not settle.  After it returned or threw, a generator answers done.
NextResult(g, k) ==
    IF k <= Len(g.events) THEN [kind |-> "value", value |-> g.events[k]]
    ELSE IF g.end = "stall" THEN [kind |-> "never", value |-> Undefined]
    ELSE IF g.end = "throw" /\ k = Len(g.events) + 1
         THEN [kind |-> "rejected", value |-> Undefined]
    ELSE [kind |-> "done", value |-> Undefined]

\* the promise at position k of the array has settled
Settled(ps, sv, k) == ps[k].req <= sv[ps[k].index]

\* Promise.race(promises) called while some promise has settled: it settles
\* with the first settled promise in array order; 0 when all are pending
FirstSettled(ps, sv) ==
    LET S == {k \in 1..Len(ps) : Settled(ps, sv, k)}
    IN  IF S = {} THEN 0 ELSE CHOOSE k \in S : \A j \in S : k <= j

\* Promise.race(promises) returns a new promise: the promise of no
\* generator's next()
PromiseRace(ps) == [index |-> 0, req |-> 0]

\* promises.findIndex(p => p === Promise.race(promises)), shifted by one
\* (lines 50-52), and the index of the promise found at lines 86-89
FindRaced(ps) ==
    LET S == {k \in 1..Len(ps) : ps[k] = PromiseRace(ps)}
    IN  IF S = {} THEN 0 ELSE CHOOSE k \in S : \A j \in S : k <= j

\* if (promiseIndex !== -1) promises.splice(promiseIndex, 1)
RemoveRaced(ps) == Splice(ps, FindRaced(ps))

\* number of next() calls made on generator i so far
Called(ps, i) == Cardinality({k \in 1..Len(ps) : ps[k].index = i})

\* the while condition of line 44 and the check of line 97, followed by the
\* Promise.race call of line 47 when the loop goes on
LoopTop(ps, sv, ab) ==
    IF ab THEN [pc |-> "aborted", winner |-> 0]
    ELSE IF Len(ps) = 0 THEN [pc |-> "returned", winner |-> 0]
    ELSE [pc |-> "race", winner |-> FirstSettled(ps, sv)]

\* { ...result.value, _metadata: { callId, originalPrompt, executionId } }
MxEnrich(value, g) ==
    [type |-> value.type, value |-> value.value,
     metadata |-> [callId |-> g.callId, originalPrompt |-> g.originalPrompt,
                   executionId |-> g.executionId]]

MxInit ==
    /\ generators \in GeneratorLists
    /\ aborted \in BOOLEAN
    /\ promises = [i \in 1..Len(generators) |-> [index |-> i, req |-> 1]]
    /\ served = [i \in 1..Len(generators) |-> 0]
    /\ mxPc = LoopTop(promises, served, aborted).pc
    /\ winner = 0
    /\ mxOutput = <<>>
    /\ mxOrigin = <<>>
    /\ caught = {}

\* generator i settles the oldest of its pending next() calls; a pending
\* Promise.race settles with it
MxSettle(i) ==
    /\ i \in DOMAIN generators
    /\ served[i] < Called(promises, i)
    /\ NextResult(generators[i], served[i] + 1).kind # "never"
    /\ served' = [served EXCEPT ![i] = @ + 1]
    /\ winner' = IF mxPc = "race" /\ winner = 0
                 THEN CHOOSE k \in 1..Len(promises) :
                          promises[k] = [index |-> i, req |-> served[i] + 1]
                 ELSE winner
    /\ UNCHANGED <<generators, promises, mxPc, mxOutput, mxOrigin, aborted, caught>>
    /\ UNCHANGED nonMxVars

\* the race settled with { done: true }: lines 47-60, then the loop condition
MxDone ==
    /\ mxPc = "race" /\ winner # 0
    /\ LET p == promises[winner]
       IN  NextResult(generators[p.index], p.req).kind = "done"
    /\ promises' = RemoveRaced(promises)
    /\ mxPc' = LoopTop(promises', served, aborted).pc
    /\ winner' = LoopTop(promises', served, aborted).winner
    /\ UNCHANGED <<generators, served, mxOutput, mxOrigin, aborted, caught>>
    /\ UNCHANGED nonMxVars

\* the race settled with a value: lines 47-74, up to the yield
MxYield ==
    /\ mxPc = "race" /\ winner # 0
    /\ Len(mxOutput) < MaxYields
    /\ LET p == promises[winner]
           r == NextResult(generators[p.index], p.req)
       IN  /\ r.kind = "value"
           /\ mxOutput' = Append(mxOutput, MxEnrich(r.value, generators[p.index]))
           /\ mxOrigin' = Append(mxOrigin, <<p.index, p.req>>)
    /\ promises' = RemoveRaced(promises)
    /\ mxPc' = "yielded"
    /\ UNCHANGED <<generators, served, winner, aborted, caught>>
    /\ UNCHANGED nonMxVars

\* the consumer asks for the next event: lines 76-81 push the next() of the
\* generator that was yielded from, then the loop condition
MxResume ==
    /\ mxPc = "yielded"
    /\ LET index == mxOrigin[Len(mxOrigin)][1]
       IN  promises' = Append(promises,
                              [index |-> index, req |-> Called(promises, index) + 1])
    /\ mxPc' = LoopTop(promises', served, aborted).pc
    /\ winner' = LoopTop(promises', served, aborted).winner
    /\ UNCHANGED <<generators, served, mxOutput, mxOrigin, aborted, caught>>
    /\ UNCHANGED nonMxVars

\* the race rejected: the catch block of lines 82-93, then the loop condition
MxCatch ==
    /\ mxPc = "race" /\ winner # 0
    /\ LET p == promises[winner]
       IN  /\ NextResult(generators[p.index], p.req).kind = "rejected"
           /\ caught' = caught \cup {p.index}
    /\ promises' = RemoveRaced(promises)
    /\ mxPc' = LoopTop(promises', served, aborted).pc
    /\ winner' = LoopTop(promises', served, aborted).winner
    /\ UNCHANGED <<generators, served, mxOutput, mxOrigin, aborted>>
    /\ UNCHANGED nonMxVars

\* the caller aborts the signal while the merge runs
MxAbort ==
    /\ mxPc \in {"race", "yielded"}
    /\ ~aborted
    /\ aborted' = TRUE
    /\ UNCHANGED <<generators, promises, served, winner, mxPc, mxOutput,
                   mxOrigin, caught>>
    /\ UNCHANGED nonMxVars

\* interleavedMerge, lines 108-151: the same loop over the same promises
\* array, yielding result.value as it is.  The race settled with
\* { done: true }: lines 121-126 remove nothing, then the loop condition
ImDone ==
    /\ mxPc = "race" /\ winner # 0
    /\ LET p == promises[winner]
       IN  NextResult(generators[p.index], p.req).kind = "done"
    /\ mxPc' = LoopTop(promises, served, aborted).pc
    /\ winner' = LoopTop(promises, served, aborted).winner
    /\ UNCHANGED <<generators, promises, served, mxOutput, mxOrigin, aborted, caught>>
    /\ UNCHANGED nonMxVars

\* the race settled with a value: lines 121-129, up to the yield
ImYield ==
    /\ mxPc = "race" /\ winner # 0
    /\ Len(mxOutput) < MaxYields
    /\ LET p == promises[winner]
           r == NextResult(generators[p.index], p.req)
       IN  /\ r.kind = "value"
           /\ mxOutput' = Append(mxOutput, r.value)
           /\ mxOrigin' = Append(mxOrigin, <<p.index, p.req>>)
    /\ mxPc' = "yielded"
    /\ UNCHANGED <<generators, promises, served, winner, aborted, caught>>
    /\ UNCHANGED nonMxVars

\* the race rejected: the catch block of lines 135-144 looks for a new
\* Promise.race promise in the array, then the loop condition
ImCatch ==
    /\ mxPc = "race" /\ winner # 0
    /\ LET p == promises[winner]
       IN  /\ NextResult(generators[p.index], p.req).kind = "rejected"
           /\ caught' = caught \cup {p.index}
    /\ promises' = RemoveRaced(promises)
    /\ mxPc' = LoopTop(promises', served, aborted).pc
    /\ winner' = LoopTop(promises', served, aborted).winner
    /\ UNCHANGED <<generators, served, mxOutput, mxOrigin, aborted>>
    /\ UNCHANGED nonMxVars

\* interleavedMerge: the generators settle, the loop runs, the consumer
\* resumes it (lines 131-134 push the next() as lines 76-81 do), the caller
\* aborts
ImNext ==
    \/ \E i \in 1..MaxStreams : MxSettle(i)
    \/ ImDone
    \/ ImYield
    \/ MxResume
    \/ ImCatch
    \/ MxAbort

MxNext ==
    \/ \E i \in 1..MaxStreams : MxSettle(i)
    \/ MxDone
    \/ MxYield
    \/ MxResume
    \/ MxCatch
    \/ MxAbort

MxIdle ==
    /\ generators = <<>>
    /\ promises = <<>>
    /\ served = <<>>
    /\ winner = 0
    /\ mxPc = "returned"
    /\ mxOutput = <<>>
    /\ mxOrigin = <<>>
    /\ aborted = FALSE
    /\ caught = {}

(***************************************************************************)
(* RetryManager (part_002).  A message and a pattern are the sequences of  *)
(* their characters.  An Error is its message and the invocation that      *)
(* raised it (by: the executeWithRetry call and the number of the          *)
(* operation() call), so that two errors with one message are two errors.  *)
(* nextRetryTime is read by no operation and is left out of RetryContext.  *)
(***************************************************************************)
\* largest maxRetries of a RetryConfig
MaxRetries == 2
\* number of executeWithRetry invocations in one run
MaxExecutions == 2
\* number of operation() calls in one run, over all executeWithRetry calls
MaxInvocations == 4

RetryCallIds == {"call1", "call2"}

\* error.message of the errors an operation raises
ErrorMessages == {<<"a", "b">>, <<"b">>}

\* config.retryableErrors: none, the single character '/', the regex /a./,
\* and an invalid regex followed by a literal
RetryableLists ==
    {<<>>,
     << <<"/">> >>,
     << <<"/", "a", ".", "/">> >>,
     << <<"/", "(", "/">>, <<"a">> >>}

\* the retry configurations of config.getRetryConfig()
RetryConfigs ==
    [maxRetries : 0..MaxRetries, backoffMs : {100},
     exponentialBackoff : BOOLEAN, retryableErrors : RetryableLists]

\* the config argument of executeWithRetry: omitted, or an override
ConfigArgs ==
    {[given |-> FALSE,
      value |-> [maxRetries |-> 0, backoffMs |-> 0,
                 exponentialBackoff |-> FALSE, retryableErrors |-> <<>>]],
     [given |-> TRUE,
      value |-> [maxRetries |-> 1, backoffMs |-> 250,
                 exponentialBackoff |-> TRUE, retryableErrors |-> << <<"b">> >>]]}

NoContext == 0
NoError == [message |-> <<>>, by |-> <<0, 0>>]

\* message.includes(pattern)
Includes(message, pattern) ==
    \E s \in 0..(Len(message) - Len(pattern)) :
        SubSeq(message, s + 1, s + Len(pattern)) = pattern

\* pattern.startsWith('/') && pattern.endsWith('/')
IsSlashed(pattern) ==
    /\ Len(pattern) >= 1
    /\ pattern[1] = "/"
    /\ pattern[Len(pattern)] = "/"

\* pattern.slice(1, -1)
Slice1(pattern) == SubSeq(pattern, 2, Len(pattern) - 1)

\* new RegExp(source) throws, for a source of '.', '(' and characters that
\* stand for themselves in a pattern: a '(', which nothing closes, makes the
\* source invalid
RegExpThrows(source) == \E k \in 1..Len(source) : source[k] = "("

\* regex.test(message) for a source of '.' and of characters that stand
\* for themselves in a pattern (any but ^ $ \ . * + ? ( ) [ ] { } |): the
\* source matches somewhere in the message, '.' matching any one code unit
\* that is not a line terminator (line feed, carriage return, U+2028,
\* U+2029)
RegExpTest(source, message) ==
    LET LineTerminators == {"\n", "\r", "U+2028", "U+2029"}
    IN  \E s \in 0..(Len(message) - Len(source)) :
            \A k \in 1..Len(source) :
                IF source[k] = "." THEN message[s + k] \notin LineTerminators
                ELSE source[k] = message[s + k]

\* the callback of retryableErrors.some (lines 152-166)
PatternMatches(pattern, message) ==
    IF IsSlashed(pattern)
    THEN IF RegExpThrows(Slice1(pattern))
         THEN Includes(message, pattern)
         ELSE RegExpTest(Slice1(pattern), message)
    ELSE Includes(message, pattern)

isRetryableError(error, config) ==
    IF error.message = <<>> THEN FALSE
    ELSE \E j \in 1..Len(config.retryableErrors) :
             PatternMatches(config.retryableErrors[j], error.message)

\* Math.pow(2, n) for an integer n >= 0
RECURSIVE Pow2(_)
Pow2(n) == IF n = 0 THEN 1 ELSE 2 * Pow2(n - 1)

\* calculateBackoff(attempt, config) for attempt >= 1: executeWithRetry
\* calls it after context.attempt++
calculateBackoff(attempt, config) ==
    IF config.exponentialBackoff
    THEN config.backoffMs * Pow2(attempt - 1)
    ELSE config.backoffMs

\* a lookup that ignores the callId: the context stored last, whatever its key
getAnyRetryContext(m, callId) ==
    LET S == {m[k] : k \in DOMAIN m} \ {NoContext}
    IN  IF S = {} THEN NoContext ELSE CHOOSE r \in S : \A q \in S : q <= r

getRetryContext(m, callId) == m[callId]

\* no delete: the entry stays
MapKeep(m, callId) == m

\* this.retryContexts.delete(callId)
MapDelete(m, callId) == [m EXCEPT ![callId] = NoContext]

\* operation() calls made so far
RECURSIVE InvokedUpTo(_, _)
InvokedUpTo(ex, k) == IF k = 0 THEN 0 ELSE ex[k].invoked + InvokedUpTo(ex, k - 1)

Invocations == InvokedUpTo(executions, Len(executions))

RetryInit ==
    /\ defaultConfig \in RetryConfigs
    /\ retryContexts = [id \in RetryCallIds |-> NoContext]
    /\ contexts = <<>>
    /\ executions = <<>>

\* executeWithRetry(callId, operation, config) up to its first await:
\* lines 75-85, with the first operation() call
ExecuteWithRetry(callId, arg) ==
    /\ Len(executions) < MaxExecutions
    /\ Invocations < MaxInvocations
    /\ LET retryConfig == IF arg.given THEN arg.value ELSE defaultConfig
           found == getRetryContext(retryContexts, callId)
           context == IF found = NoContext THEN Len(contexts) + 1 ELSE found
       IN  /\ IF found = NoContext
              THEN /\ contexts' = Append(contexts,
                          [callId |-> callId, attempt |-> 0, lastError |-> NoError])
                   /\ retryContexts' = [retryContexts EXCEPT ![callId] = context]
              ELSE UNCHANGED <<contexts, retryContexts>>
           /\ executions' = Append(executions,
                  [callId |-> callId, retryConfig |-> retryConfig,
                   context |-> context, pc |-> "operation", invoked |-> 1,
                   errors |-> <<>>, delays |-> <<>>, thrown |-> NoError])
    /\ UNCHANGED defaultConfig
    /\ UNCHANGED nonRetryVars

\* await operation() resolves: lines 86-88
OperationResolves(c) ==
    /\ c \in DOMAIN executions
    /\ executions[c].pc = "operation"
    /\ retryContexts' = MapDelete(retryContexts, executions[c].callId)
    /\ executions' = [executions EXCEPT ![c].pc = "returned"]
    /\ UNCHANGED <<defaultConfig, contexts>>
    /\ UNCHANGED nonRetryVars

\* await operation() rejects with an error of this message: lines 89-113, up
\* to the await of the backoff
OperationRejects(c, message) ==
    /\ c \in DOMAIN executions
    /\ executions[c].pc = "operation"
    /\ LET e == executions[c]
           error == [message |-> message, by |-> <<c, e.invoked>>]
           context == contexts[e.context]
       IN  IF context.attempt >= e.retryConfig.maxRetries
              \/ ~isRetryableError(error, e.retryConfig)
           THEN /\ contexts' = [contexts EXCEPT ![e.context].lastError = error]
                /\ retryContexts' = MapDelete(retryContexts, e.callId)
                /\ executions' = [executions EXCEPT
                       ![c].pc = "thrown",
                       ![c].errors = Append(@, error),
                       ![c].thrown = error]
           ELSE /\ contexts' = [contexts EXCEPT
                       ![e.context].lastError = error,
                       ![e.context].attempt = @ + 1]
                /\ executions' = [executions EXCEPT
                       ![c].pc = "backoff",
                       ![c].errors = Append(@, error),
                       ![c].delays = Append(@,
                           calculateBackoff(context.attempt + 1, e.retryConfig))]
                /\ UNCHANGED retryContexts
    /\ UNCHANGED defaultConfig
    /\ UNCHANGED nonRetryVars

\* the setTimeout of line 113 fires: the loop calls operation() again
BackoffElapses(c) ==
    /\ c \in DOMAIN executions
    /\ executions[c].pc = "backoff"
    /\ Invocations < MaxInvocations
    /\ executions' = [executions EXCEPT ![c].pc = "operation", ![c].invoked = @ + 1]
    /\ UNCHANGED <<defaultConfig, retryContexts, contexts>>
    /\ UNCHANGED nonRetryVars

RetryNext ==
    \/ \E callId \in RetryCallIds, arg \in ConfigArgs : ExecuteWithRetry(callId, arg)
    \/ \E c \in 1..MaxExecutions : OperationResolves(c)
    \/ \E c \in 1..MaxExecutions, message \in ErrorMessages : OperationRejects(c, message)
    \/ \E c \in 1..MaxExecutions : BackoffElapses(c)

RetryIdle ==
    /\ defaultConfig = [maxRetries |-> 0, backoffMs |-> 0,
                        exponentialBackoff |-> FALSE, retryableErrors |-> <<>>]
    /\ retryContexts = [id \in RetryCallIds |-> NoContext]
    /\ contexts = <<>>
    /\ executions = <<>>

(***************************************************************************)
(* GeminiClient (part_001): parseConcurrentSyntax, executeConcurrentStreams *)
(* and sendMessageStream.  A text is the sequence of its characters, a     *)
(* request (PartListUnion) a sequence of parts with a text.  Turn, the     *)
(* loop detector, the content generator and the next-speaker check are     *)
(* other modules: what they answer is an input of the step that resumes    *)
(* the call awaiting them.  The events of StreamAggregator.mergeStreams    *)
(* are those of the aggregator above; an invocation records which merge it *)
(* yields from.                                                            *)
(***************************************************************************)
\* number of parts of a request given to parseConcurrentSyntax
MaxPieces == 5
\* number of sendMessageStream invocations in one session
MaxSends == 2

\* number of invocations followed in one chain of recursive
\* sendMessageStream calls
MaxChain == 101

\* private readonly MAX_TURNS = 100
MAX_TURNS == 100

\* texts of parts: two markers (one with two digits), a marker without its
\* colon, a text with an inner comma and outer blanks, a comma, a blank and
\* a form feed
Pieces ==
    { <<"c", "a", "l", "l", "1", ":">>,
      <<"c", "a", "l", "l", "1", "2", ":">>,
      <<"c", "a", "l", "l", "1", " ", "x">>,
      <<" ", "x", ",", "x", " ">>,
      <<",">>,
      <<" ">>,
      <<"\f">> }

AsRequest(texts) == [i \in 1..Len(texts) |-> [text |-> texts[i]]]

\* the requests given to parseConcurrentSyntax
ParserRequests == {AsRequest(texts) : texts \in SeqUpTo(Pieces, MaxPieces)}

\* a request with the markers of two calls, and one with no marker
MarkedRequest ==
    AsRequest(<< <<"c", "a", "l", "l", "1", ":">>, <<" ", "x", ",", "x", " ">>,
                 <<",">>, <<"c", "a", "l", "l", "1", "2", ":">>,
                 <<"c", "a", "l", "l", "1", " ", "x">> >>)

PlainRequest == AsRequest(<< <<"c", "a", "l", "l", "1", " ", "x">> >>)

\* the requests given to sendMessageStream: two calls, one call after a
\* prefix, two markers without a comma between them, no marker
ClientRequests ==
    { MarkedRequest,
      AsRequest(<< <<"c", "a", "l", "l", "1", " ", "x">>,
                   <<"c", "a", "l", "l", "1", ":">>, <<" ">> >>),
      AsRequest(<< <<"c", "a", "l", "l", "1", ":">>, <<" ">>,
                   <<"c", "a", "l", "l", "1", "2", ":">> >>),
      PlainRequest }

\* the requests of a session with calls in flight together
SessionRequests == {MarkedRequest, PlainRequest}

Signals == {"signal1", "signal2"}
\* prompt_id 'p1'
PromptId == <<"p", "1">>

\* 'Please continue.'
PleaseContinue ==
    <<"P", "l", "e", "a", "s", "e", " ", "c", "o", "n", "t", "i", "n", "u", "e", ".">>

\* contextParts.join('\n') of IDE mode: empty when IDE mode is off or no
\* file is open; else the text about the open files, here of a file named
\* 'call1:'
IdeContexts == {<<>>, <<"-", " ", "c", "a", "l", "l", "1", ":">>}

\* the events the Turn of a sequential invocation produces
TurnEvents == <<[type |-> "content", value |-> 1], [type |-> "content", value |-> 2]>>

ForcedModes == {Undefined, "sequential", "concurrent"}

\* what Config answers to getConcurrencyEnabled, getForcedProcessingMode,
\* getMaxSessionTurns and getMaxConcurrentCalls
ClientConfigs ==
    [concurrencyEnabled : BOOLEAN, forcedMode : ForcedModes,
     maxSessionTurns : 0..MaxSends, maxConcurrentCalls : {1, 3}]

\* the configurations the parser is called under: concurrency enabled with
\* each forced mode, and concurrency disabled
ParserConfigs ==
    {c \in ClientConfigs : /\ c.maxSessionTurns = 0 /\ c.maxConcurrentCalls = 3
                           /\ c.concurrencyEnabled \/ c.forcedMode = Undefined}

\* the configurations of a session with calls in flight together: a session
\* limit, one concurrent call at most, and no forced mode or 'sequential'
SessionConfigs ==
    {c \in ClientConfigs : /\ c.maxSessionTurns >= 1
                           /\ c.maxConcurrentCalls = 1
                           /\ c.forcedMode # "concurrent"
                           /\ c.concurrencyEnabled \/ c.forcedMode = Undefined}

\* the configurations of a chain of recursive calls: no session limit
ChainConfigs == {c \in ClientConfigs : c.maxSessionTurns = 0}

IsDigit(ch) == ch \in {"0", "1", "2", "3", "4", "5", "6", "7", "8", "9"}

\* \s of the regular expression and the white space trim() removes, the
\* same characters: tab, line feed, vertical tab, form feed, carriage
\* return, space, no-break space (U+00A0), U+1680, U+2000 to U+200A,
\* U+2028, U+2029, U+202F, U+205F, U+3000 and U+FEFF
IsSpace(ch) ==
    ch \in
        {"\t", "\n", "", "\f", "\r", " ", " ", " ",
         "U+2000", "U+2001", "U+2002", "U+2003", "U+2004", "U+2005", "U+2006",
         "U+2007", "U+2008", "U+2009", "U+200A", "U+2028", "U+2029", "U+202F",
         "U+205F", "U+3000", "﻿"}

RECURSIVE Flatten(_)
Flatten(texts) == IF texts = <<>> THEN <<>> ELSE Head(texts) \o Flatten(Tail(texts))

\* partToString of an array of text parts: the texts, joined by ''
partToString(req) == Flatten([i \in 1..Len(req) |-> req[i].text])

\* \d+ from position p on: the position after the digits
RECURSIVE DigitsEnd(_, _)
DigitsEnd(t, p) == IF p <= Len(t) /\ IsDigit(t[p]) THEN DigitsEnd(t, p + 1) ELSE p

\* call\d+ without the colon, at position p
MarkerEndNoColon(t, p) ==
    IF p + 4 <= Len(t) /\ SubSeq(t, p, p + 3) = <<"c", "a", "l", "l">>
       /\ IsDigit(t[p + 4])
    THEN DigitsEnd(t, p + 4) + 1
    ELSE 0

\* (call\d+): at position p: the position after the colon, 0 when the text
\* at p does not match
MarkerEnd(t, p) ==
    IF p + 4 <= Len(t) /\ SubSeq(t, p, p + 3) = <<"c", "a", "l", "l">>
       /\ IsDigit(t[p + 4])
    THEN LET e == DigitsEnd(t, p + 4)
         IN  IF e <= Len(t) /\ t[e] = ":" THEN e + 1 ELSE 0
    ELSE 0

\* \s* from position p on: the position after the white space
RECURSIVE SpacesEnd(_, _)
SpacesEnd(t, p) == IF p <= Len(t) /\ IsSpace(t[p]) THEN SpacesEnd(t, p + 1) ELSE p

\* every comma ends a prompt
SeparatorAtAnyComma(t, p) == p <= Len(t) /\ t[p] = ","

\* ,\s*call\d+: at position p, the lookaheads (?!...) and (?=...)
SeparatorAt(t, p) ==
    p <= Len(t) /\ t[p] = "," /\ MarkerEnd(t, SpacesEnd(t, p + 1)) # 0

\* ((?:[^,]|,(?!\s*call\d+:))*)(?=,\s*call\d+:|$) from position p on: the
\* group takes every character up to the first comma that starts a
\* separator, or up to the end of the text, where the lookahead holds
RECURSIVE BodyEnd(_, _)
BodyEnd(t, p) == IF p > Len(t) \/ SeparatorAt(t, p) THEN p ELSE BodyEnd(t, p + 1)

\* [...text.matchAll(concurrentCallRegex)] from position from on: groups 1
\* and 2 of each match; the search goes on where the match ended
RECURSIVE matchAll(_, _)
matchAll(t, from) ==
    IF from > Len(t) THEN <<>>
    ELSE LET e == MarkerEnd(t, from)
         IN  IF e = 0 THEN matchAll(t, from + 1)
             ELSE LET s == SpacesEnd(t, e)
                      q == BodyEnd(t, s)
                  IN  << [id |-> SubSeq(t, from, e - 2),
                          prompt |-> SubSeq(t, s, q - 1)] >> \o matchAll(t, q)

RECURSIVE trimStart(_)
trimStart(s) == IF s # <<>> /\ IsSpace(Head(s)) THEN trimStart(Tail(s)) ELSE s

RECURSIVE trimEnd(_)
trimEnd(s) ==
    IF s # <<>> /\ IsSpace(s[Len(s)]) THEN trimEnd(SubSeq(s, 1, Len(s) - 1)) ELSE s

\* String.prototype.trim
trim(s) == trimEnd(trimStart(s))

\* { hasConcurrentCalls: false, calls: [] }
NoCalls == [hasConcurrentCalls |-> FALSE, calls |-> <<>>]

\* the parser without the check of the forced processing mode
parseIgnoringForcedMode(req, config) ==
    LET text == partToString(req)
        matches == matchAll(text, 1)
    IN  IF ~config.concurrencyEnabled THEN NoCalls
        ELSE IF Len(matches) > 0
             THEN [hasConcurrentCalls |-> TRUE,
                   calls |-> [i \in 1..Len(matches) |->
                                 [id |-> matches[i].id,
                                  prompt |-> trim(matches[i].prompt)]]]
        ELSE NoCalls

\* parseConcurrentSyntax(request, prompt_id), lines 446-497
parseConcurrentSyntax(req, config) ==
    LET text == partToString(req)
        matches == matchAll(text, 1)
    IN  IF ~config.concurrencyEnabled THEN NoCalls
        ELSE IF config.forcedMode = "sequential" THEN NoCalls
        ELSE IF Len(matches) > 0
             THEN [hasConcurrentCalls |-> TRUE,
                   calls |-> [i \in 1..Len(matches) |->
                                 [id |-> matches[i].id,
                                  prompt |-> trim(matches[i].prompt)]]]
        ELSE NoCalls

\* this.getChat(): the one GeminiChat object of the client, by reference
getChat == "this.chat"

\* a request of the call's id and prompt
buildRequestWithId(call) == <<[text |-> call.id], [text |-> call.prompt]>>

\* return [{ text: fullPrompt }]
buildRequestFromCall(call) == <<[text |-> call.prompt]>>

\* executeConcurrentStreams(calls, signal, prompt_id): the Turns it creates
\* (the chat each is given and its prompt id), the Turn.run calls (the stream of the i-th is stream i),
\* the call lists given to new StreamAggregator, and the stream lists given
\* to mergeStreams
executeConcurrentStreams(cs, signal, prompt_id) ==
    [turns |-> [i \in 1..Len(cs) |->
                   [chat |-> getChat, prompt_id |-> prompt_id \o <<"-">> \o cs[i].id]],
     runs |-> [i \in 1..Len(cs) |->
                  [turn |-> i, request |-> buildRequestFromCall(cs[i]),
                   signal |-> signal]],
     aggregators |-> <<cs>>,
     merges |-> << [i \in 1..Len(cs) |-> i] >>]

\* an event that reports the first call only
DetectedEventOfFirstCall(prompt_id, cs) ==
    [name |-> "concurrent_syntax_detected", prompt_id |-> prompt_id,
     call_count |-> 1, calls |-> SubSeq(cs, 1, 1)]

\* new ConcurrentSyntaxDetectedEvent(prompt_id, calls), part_000 443-449
\* (without its timestamp)
ConcurrentSyntaxDetectedEvent(prompt_id, cs) ==
    [name |-> "concurrent_syntax_detected", prompt_id |-> prompt_id,
     call_count |-> Len(cs), calls |-> cs]

\* no call of parseConcurrentSyntax or executeConcurrentStreams yet
NotParsed == [parsed |-> FALSE, hasConcurrentCalls |-> FALSE, calls |-> <<>>]
NoExecution == [turns |-> <<>>, runs |-> <<>>, aggregators |-> <<>>,
                merges |-> <<>>]

\* the session counter is over the limit
OverLimitLate(count, maxSessionTurns) ==
    maxSessionTurns > 0 /\ count > maxSessionTurns + 1

\* getMaxSessionTurns() > 0 && sessionTurnCount > getMaxSessionTurns()
OverLimit(count, maxSessionTurns) ==
    maxSessionTurns > 0 /\ count > maxSessionTurns

\* Math.min
Min(a, b) == IF a < b THEN a ELSE b

\* the request after the IDE-mode block of lines 333-369, contextParts
\* joined being ideContext
WithIdeContext(req, ideContext) ==
    IF ideContext # <<>> THEN <<[text |-> ideContext]>> \o req ELSE req

(***************************************************************************)
(* GeminiClient: the chat and its compression (tryCompressChat).           *)
(* A Content has one part: a text or a functionResponse with a name.       *)
(***************************************************************************)
MaxHistory == 3   \* longest history of a chat
MaxChats == 2     \* GeminiChat objects created in a run

TokenLimit == 1000

\* 0.7 and 0.3 as fractions <<numerator, denominator>>
COMPRESSION_TOKEN_THRESHOLD == <<7, 10>>

COMPRESSION_PRESERVE_THRESHOLD == <<3, 10>>

TextContent(role, text) == [role |-> role, kind |-> "text", text |-> text]

FunctionResponse(name) ==
    [role |-> "user", kind |-> "functionResponse", text |-> name]

\* the values getEnvironment reads: new Date().toLocaleDateString(...),
\* process.platform, config.getWorkingDir() and what getFolderStructure
\* answers
Today ==
    <<"S", "a", "t", "u", "r", "d", "a", "y", ",", " ", "O", "c", "t", "o",
      "b", "e", "r", " ", "3", "1", ",", " ", "2", "0", "2", "6">>
Platform == <<"l", "i", "n", "u", "x">>
WorkingDir == <<"/", "t", "e", "s", "t", "/", "d", "i", "r">>
FolderStructure ==
    <<"M", "o", "c", "k", " ", "F", "o", "l", "d", "e", "r", " ", "S", "t",
      "r", "u", "c", "t", "u", "r", "e">>

\* the lines of the template literal of lines 197-203
ContextIntro ==
    <<"T", "h", "i", "s", " ", "i", "s", " ", "t", "h", "e", " ", "G", "e",
      "m", "i", "n", "i", " ", "C", "L", "I", ".", " ", "W", "e", " ", "a",
      "r", "e", " ", "s", "e", "t", "t", "i", "n", "g", " ", "u", "p", " ",
      "t", "h", "e", " ", "c", "o", "n", "t", "e", "x", "t", " ", "f", "o",
      "r", " ", "o", "u", "r", " ", "c", "h", "a", "t", ".">>
ContextDate ==
    <<"T", "o", "d", "a", "y", "'", "s", " ", "d", "a", "t", "e", " ", "i",
      "s", " ">>
ContextSystem ==
    <<"M", "y", " ", "o", "p", "e", "r", "a", "t", "i", "n", "g", " ", "s",
      "y", "s", "t", "e", "m", " ", "i", "s", ":", " ">>
ContextDirectory ==
    <<"I", "'", "m", " ", "c", "u", "r", "r", "e", "n", "t", "l", "y", " ",
      "w", "o", "r", "k", "i", "n", "g", " ", "i", "n", " ", "t", "h", "e",
      " ", "d", "i", "r", "e", "c", "t", "o", "r", "y", ":", " ">>
ContextBreak == <<"\n", " ", " ">>
ContextEnd == <<"\n", " ", " ", " ", " ", " ", " ", " ", " ", " ", " ">>

\* the text of the part getEnvironment() returns when getFullContext() is
\* false: the template literal, trimmed
getEnvironment(today, platform, cwd, folderStructure) ==
    trim(ContextBreak \o ContextIntro
         \o ContextBreak \o ContextDate \o today \o <<".">>
         \o ContextBreak \o ContextSystem \o platform
         \o ContextBreak \o ContextDirectory \o cwd
         \o ContextBreak \o folderStructure \o ContextEnd)

\* what startChat puts in front of every chat: { role: 'user', parts:
\* envParts }
EnvContent ==
    TextContent("user",
                getEnvironment(Today, Platform, WorkingDir, FolderStructure))

GotItContext == TextContent("model",
    <<"G", "o", "t", " ", "i", "t", ".", " ", "T", "h", "a", "n", "k", "s",
      " ", "f", "o", "r", " ", "t", "h", "e", " ", "c", "o", "n", "t", "e",
      "x", "t", "!">>)

GotItAdditional == TextContent("model",
    <<"G", "o", "t", " ", "i", "t", ".", " ", "T", "h", "a", "n", "k", "s",
      " ", "f", "o", "r", " ", "t", "h", "e", " ", "a", "d", "d", "i", "t",
      "i", "o", "n", "a", "l", " ", "c", "o", "n", "t", "e", "x", "t", "!">>)

SummaryRequest == TextContent("user",
    <<"F", "i", "r", "s", "t", ",", " ", "r", "e", "a", "s", "o", "n", " ",
      "i", "n", " ", "y", "o", "u", "r", " ", "s", "c", "r", "a", "t", "c",
      "h", "p", "a", "d", ".", " ", "T", "h", "e", "n", ",", " ", "g", "e",
      "n", "e", "r", "a", "t", "e", " ", "t", "h", "e", " ", "<", "s", "t",
      "a", "t", "e", "_", "s", "n", "a", "p", "s", "h", "o", "t", ">",
      ".">>)

\* the contents the user and the model add to a chat
Contents == { TextContent("user", <<"a">>),
              TextContent("model", <<"b", "b">>),
              FunctionResponse(<<"f">>) }

\* the summaries the model answers with
Summaries == { <<"s">> }

\* totalTokens === undefined
UndefinedCount == -1

TokenCounts == {UndefinedCount, 699, 700}

\* what the second countTokens call answers
NewTokenCounts == {UndefinedCount, 100}

\* number of characters JSON.stringify writes for the code units of a
\* string. Two for the quote, the backslash, backspace, tab, line feed,
\* form feed and carriage return, written with a backslash and one
\* character; six for the other code units below U+0020 (U+0000 to U+0007,
\* U+000B, U+000E to U+001F), written \u00XX, and for a surrogate without
\* its partner (a high surrogate that no low surrogate follows, a low
\* surrogate that no high surrogate precedes), written \uDXXX; one for any
\* other
EscapedLength(text) ==
    LET ShortEscapes == {"\"", "\\", "", "\t", "\n", "\f", "\r"}
        LongEscapes ==
           {"U+0000", "", "", "", "", "", "", "", "",
            "", "", "", "", "", "", "", "", "",
            "", "", "", "", "", "", "", "", ""}
        LoneSurrogate(i) ==
            \/ /\ text[i] \in HighSurrogates
               /\ ~(i < Len(text) /\ text[i + 1] \in LowSurrogates)
            \/ /\ text[i] \in LowSurrogates
               /\ ~(i > 1 /\ text[i - 1] \in HighSurrogates)
    IN  Len(text)
          + Cardinality({i \in 1..Len(text) : text[i] \in ShortEscapes})
          + 5 * Cardinality({i \in 1..Len(text) :
                                text[i] \in LongEscapes \/ LoneSurrogate(i)})

RoleLength(role) == IF role = "user" THEN 4 ELSE 5

JsonLength(content) ==
    IF content.kind = "text"
    THEN 9 + RoleLength(content.role) + 20 + EscapedLength(content.text) + 4
    ELSE 9 + RoleLength(content.role) + 40 + EscapedLength(content.text) + 5

SumLengths(history, n) ==
    LET RECURSIVE sum(_)
        sum(i) == IF i > n THEN 0 ELSE JsonLength(history[i]) + sum(i + 1)
    IN  sum(1)

\* n >= factor * fraction as the program computes it, in double precision:
\* fraction <<p, q>>, 0 < p < q, is the double nearest p/q, and the product
\* is rounded to the nearest double. With M the 53-bit significand of the
\* fraction, M / 2^(52 + e) the double, and rho = M * q - p * 2^(52 + e) its
\* error, the rounded product is above the integer n exactly when
\* factor * p > n * q, or factor * p = n * q and factor * rho is more than
\* q times half the distance from n to the next double, 2^(e + k - 1)
\* where 2^k <= n. For factor * q below 2^31.
AtLeastProduct(n, factor, fraction) ==
    LET p == fraction[1]
        q == fraction[2]
        RECURSIVE exponent(_)
        \* the least e with p * 2^e >= q
        exponent(e) == IF p * (2 ^ e) >= q THEN e ELSE exponent(e + 1)
        e == exponent(1)
        RECURSIVE shifted(_, _)
        \* (r * 2^s) modulo 2q
        shifted(r, s) == IF s = 0 THEN r ELSE shifted((2 * r) % (2 * q), s - 1)
        r2 == shifted(p % (2 * q), 52 + e)
        odd == r2 >= q
        r == r2 % q
        \* round to nearest, ties to the even significand
        rho == IF 2 * r < q \/ (2 * r = q /\ ~odd) THEN 0 - r ELSE q - r
        RECURSIVE log2(_)
        log2(m) == IF m < 2 THEN 0 ELSE 1 + log2(m \div 2)
        j == e + log2(n) - 1
        t == factor * rho
    IN  IF n * q # factor * p THEN n * q > factor * p
        ELSE IF n = 0 \/ rho <= 0 \/ j >= 31 THEN TRUE
        ELSE (t \div (2 ^ j)) + (IF t % (2 ^ j) > 0 THEN 1 ELSE 0) <= q

\* throw new Error('Fraction must be between 0 and 1')
FractionError == "Fraction must be between 0 and 1"

\* findIndexAfterFraction(history, fraction), fraction <<p, q>> with q > 0:
\* the error for a fraction that is not strictly between 0 and 1; else the
\* 0-based index of the first content with which charactersSoFar >=
\* targetCharacters, the length of the history when there is none
findIndexAfterFraction(history, fraction) ==
    LET totalCharacters == SumLengths(history, Len(history))
        reached == { i \in 1..Len(history) :
                        AtLeastProduct(SumLengths(history, i),
                                       totalCharacters, fraction) }
    IN  IF fraction[1] <= 0 \/ fraction[1] >= fraction[2] THEN FractionError
        ELSE IF reached = {} THEN Len(history)
        ELSE (CHOOSE i \in reached : \A j \in reached : i <= j) - 1

isFunctionResponse(content) ==
    content.role = "user" /\ content.kind = "functionResponse"

\* the while loop of tryCompressChat on a 0-based index
NextUserTurn(history, index) ==
    LET RECURSIVE skip(_)
        skip(i) == IF /\ i < Len(history)
                      /\ \/ history[i + 1].role = "model"
                         \/ isFunctionResponse(history[i + 1])
                   THEN skip(i + 1)
                   ELSE i
    IN  skip(index)

\* GeminiChat: the history it answers, the history it is given, and a
\* sendMessage that resolved
getHistory(c, curated) == c.history

setHistory(c, history) == [c EXCEPT !.history = history]

sendMessage(c, message, summary) ==
    [c EXCEPT !.history = @ \o <<message, TextContent("model", summary)>>]

\* the history of the GeminiChat startChat(extraHistory) constructs
startChat(extraHistory) == <<EnvContent, GotItContext>> \o extraHistory

\* originalTokenCount < COMPRESSION_TOKEN_THRESHOLD * tokenLimit(model)
UnderThreshold(count) ==
    ~AtLeastProduct(count, TokenLimit, COMPRESSION_TOKEN_THRESHOLD)

(***************************************************************************)
(* GeminiClient: the calls in flight. sendMessageStream is an async        *)
(* generator and tryCompressChat an async method: a call runs from one     *)
(* await or yield to the next in one step, and other calls of the client   *)
(* run while it is suspended.                                              *)
(***************************************************************************)
MaxOpen == 2   \* calls of the client in flight at a time
\* longest history addHistory makes in a session with calls in flight: the
\* caller adds to a chat that setHistory or a compression has emptied
MaxSessionHistory == 1

\* the content the caller adds in such a session
SessionContents == { TextContent("user", <<"a">>) }

\* setHistory calls in a run
MaxSetHistory == 1

\* the histories the caller gives to setHistory
Histories == { <<>>, <<TextContent("user", <<"a">>)>> }

\* events the merged stream of one executeConcurrentStreams call gives
MaxMergeEvents == 2

NoChat == [id |-> 0, history |-> <<>>]

NoCompression ==
    [called |-> FALSE, force |-> FALSE, originalTokenCount |-> UndefinedCount,
     before |-> NoChat, after |-> NoChat,
     started |-> FALSE, disturbed |-> FALSE, outcome |-> "none"]

\* a call at its first line: a sendMessageStream generator (kind "stream")
\* with its arguments and the session count it took, or a tryCompressChat
\* call of the caller (kind "compress") with its force argument. The locals
\* of tryCompressChat: the chat at the call (before), the token count
\* (original), historyToKeep (keep), the chat object the summary request
\* went to (target), the summary; started: setHistory was reached; seen:
\* the chat as this call left it; disturbed: somebody else changed it since.
\* The locals of sendMessageStream: the request at the routing step
\* (routed), concurrencyAnalysis (analysis), the Turn.run calls (runs), the
\* executeConcurrentStreams calls (concurrent), the events given to
\* logConcurrentSyntaxDetected (logged), the events yielded, the number of
\* events received from the Turn, and the events the generator yielded in
\* the invocations that led to this one by yield* (earlier)
NewCall(kind, req, signal, prompt_id, turns, count, force) ==
    [kind |-> kind, pc |-> "start", request |-> req, signal |-> signal,
     prompt_id |-> prompt_id, turns |-> turns, count |-> count,
     force |-> force, before |-> NoChat, original |-> UndefinedCount,
     keep |-> <<>>, target |-> 0, summary |-> <<>>, started |-> FALSE,
     seen |-> NoChat, disturbed |-> FALSE,
     path |-> "none", routed |-> <<>>, analysis |-> NotParsed, runs |-> <<>>,
     concurrent |-> <<>>, logged |-> <<>>, yielded |-> <<>>, received |-> 0,
     earlier |-> <<>>]

RemoveAt(s, i) == SubSeq(s, 1, i - 1) \o SubSeq(s, i + 1, Len(s))

\* what a step of a call leaves: the call (ended: it returned or threw),
\* the chat, the record of the last tryCompressChat call that ended, and
\* the number of invocations that ran a Turn in the step
Step(f, ended, c, comp, ran) ==
    [call |-> f, ended |-> ended, chat |-> c, compression |-> comp, ran |-> ran]

\* lines 333-388: the IDE context, parseConcurrentSyntax, and either the
\* telemetry event and the executeConcurrentStreams call, up to the await of
\* its first event, or a new Turn and the await of loopDetector.turnStarted
Route(f, c, comp, ideContext) ==
    LET routed == WithIdeContext(f.request, ideContext)
        concurrencyAnalysis == parseConcurrentSyntax(routed, clientConfig)
        ex == [calls |-> concurrencyAnalysis.calls, signal |-> f.signal]
                  @@ executeConcurrentStreams(concurrencyAnalysis.calls,
                                              f.signal, f.prompt_id)
    IN  IF concurrencyAnalysis.hasConcurrentCalls
        THEN Step([f EXCEPT !.pc = "merge", !.path = "concurrent",
                            !.routed = routed,
                            !.analysis = [parsed |-> TRUE] @@ concurrencyAnalysis,
                            !.runs = ex.runs, !.concurrent = <<ex>>,
                            !.logged = <<ConcurrentSyntaxDetectedEvent(
                                            f.prompt_id,
                                            concurrencyAnalysis.calls)>>],
                  FALSE, c, comp, IF ex.runs # <<>> THEN 1 ELSE 0)
        ELSE Step([f EXCEPT !.pc = "turnStarted", !.path = "sequential",
                            !.routed = routed,
                            !.analysis = [parsed |-> TRUE] @@ concurrencyAnalysis],
                  FALSE, c, comp, 0)

\* the record of a tryCompressChat call that ended with the chat c
EndedCompression(f, c, disturbed, outcome) ==
    [called |-> TRUE, force |-> f.force, originalTokenCount |-> f.original,
     before |-> f.before, after |-> c, started |-> f.started,
     disturbed |-> disturbed, outcome |-> outcome]

\* the record after call f ended: that of f when the caller made the call,
\* who sees what it returns
Recorded(f, c, disturbed, outcome) ==
    IF f.kind = "compress" THEN EndedCompression(f, c, disturbed, outcome)
    ELSE compression

\* the locals of tryCompressChat go out of scope
ClearCompress(f) ==
    [f EXCEPT !.before = NoChat, !.original = UndefinedCount, !.keep = <<>>,
              !.target = 0, !.summary = <<>>, !.started = FALSE,
              !.seen = NoChat, !.disturbed = FALSE]

\* tryCompressChat returns null (info = UndefinedCount) or the two token
\* counts: the caller's call has ended; sendMessageStream goes on with
\* lines 329-331, the yield of ChatCompressed, or with the routing step
AfterCompress(f, c, disturbed, info, ideContext) ==
    LET comp == Recorded(f, c, disturbed,
                         IF info = UndefinedCount THEN "null" ELSE "info")
        g == ClearCompress(f)
    IN  IF f.kind = "compress" THEN Step(g, TRUE, c, comp, 0)
        ELSE IF info # UndefinedCount
        THEN Step([g EXCEPT !.pc = "compressedYielded",
                            !.yielded = Append(@,
                                [type |-> "ChatCompressed",
                                 value |-> [originalTokenCount |-> f.original,
                                            newTokenCount |-> info]])],
                  FALSE, c, comp, 0)
        ELSE Route(g, c, comp, ideContext)

\* tryCompressChat, lines 684-696: the curated history is read; with an
\* empty history the call returns null, and the sendMessageStream call that
\* made it is suspended at the await of line 327 on that answer; else the
\* call awaits countTokens
BeginCompress(f, c, comp) ==
    LET g == [f EXCEPT !.before = c, !.seen = c]
    IN  IF getHistory(c, TRUE) = <<>>
        THEN IF f.kind = "compress"
             THEN Step(ClearCompress(g), TRUE, c,
                       Recorded(g, c, FALSE, "null"), 0)
             ELSE Step([ClearCompress(g) EXCEPT !.pc = "compressNull"],
                       FALSE, c, comp, 0)
        ELSE Step([g EXCEPT !.pc = "countTokens"], FALSE, c, comp, 0)

\* sendMessageStream, lines 306-327, with the session count the invocation
\* took at line 310: over the session limit it yields MaxSessionTurns; with
\* no turns left it returns; else it calls tryCompressChat
StartFrame(req, signal, prompt_id, turns, count, c, comp) ==
    LET f == NewCall("stream", req, signal, prompt_id, turns, count, FALSE)
        boundedTurns == Min(turns, MAX_TURNS)
    IN  IF OverLimit(count, clientConfig.maxSessionTurns)
        THEN Step([f EXCEPT !.pc = "limitYielded", !.path = "limit",
                            !.yielded = <<[type |-> "MaxSessionTurns"]>>],
                  FALSE, c, comp, 0)
        ELSE IF boundedTurns = 0
        THEN Step([f EXCEPT !.pc = "returned", !.path = "noTurns"],
                  TRUE, c, comp, 0)
        ELSE BeginCompress(f, c, comp)

\* the client's state after a step of call i
Apply(i, r) ==
    /\ clientCalls' = IF r.ended THEN RemoveAt(clientCalls, i)
                      ELSE [clientCalls EXCEPT ![i] = r.call]
    /\ chat' = r.chat
    /\ compression' = r.compression
    /\ ranTurn' = ranTurn + r.ran

\* the client's state after the first step of a new call
ApplyNew(r) ==
    /\ clientCalls' = IF r.ended THEN clientCalls ELSE Append(clientCalls, r.call)
    /\ chat' = r.chat
    /\ compression' = r.compression
    /\ ranTurn' = ranTurn + r.ran

At(i, pc) == i \in DOMAIN clientCalls /\ clientCalls[i].pc = pc

\* somebody else changed the chat since call i left it
Disturbed(i) == clientCalls[i].disturbed \/ chat # clientCalls[i].seen

ClientInit ==
    /\ clientConfig \in SessionConfigs
    /\ sessionTurnCount = 0
    /\ request = <<>>
    /\ analysis = NotParsed
    /\ execution = NoExecution
    /\ clientCalls = <<>>
    /\ ranTurn = 0

\* after initialize(): this.chat = await this.startChat()
ChatInit ==
    /\ chat = [id |-> 1, history |-> startChat(<<>>)]
    /\ compression = NoCompression
    /\ setCalls = 0

\* a caller makes a sendMessageStream call and asks for its first event: the
\* generator runs from line 306 to its first await or yield
SendMessageStream(req, signal, turns) ==
    /\ Len(clientCalls) < MaxOpen
    /\ sessionTurnCount < MaxSends
    /\ sessionTurnCount' = sessionTurnCount + 1
    /\ ApplyNew(StartFrame(req, signal, PromptId, turns, sessionTurnCount + 1,
                           chat, compression))
    /\ UNCHANGED setCalls
    /\ UNCHANGED nonSessionVars

\* a caller calls tryCompressChat(prompt_id, force)
TryCompressChat(force) ==
    /\ Len(clientCalls) < MaxOpen
    /\ ApplyNew(BeginCompress(
           NewCall("compress", <<>>, "signal1", PromptId, 0, 0, force),
           chat, NoCompression))
    /\ UNCHANGED <<sessionTurnCount, setCalls>>
    /\ UNCHANGED nonSessionVars

\* a caller that awaits each tryCompressChat call before it makes the next
AwaitedTryCompressChat(force) ==
    /\ clientCalls = <<>>
    /\ TryCompressChat(force)

\* the countTokens call of lines 692-696 answers: lines 697-739, up to a
\* return of null or to the await of the summary request, made on the
\* current chat after setHistory(historyToCompress)
CountTokensResolves(i, tokens, ideContext) ==
    /\ At(i, "countTokens")
    /\ LET f == clientCalls[i]
           curatedHistory == getHistory(f.before, TRUE)
           fraction == <<COMPRESSION_PRESERVE_THRESHOLD[2]
                             - COMPRESSION_PRESERVE_THRESHOLD[1],
                         COMPRESSION_PRESERVE_THRESHOLD[2]>>
           compressBeforeIndex ==
               NextUserTurn(curatedHistory,
                            findIndexAfterFraction(curatedHistory, fraction))
           historyToCompress == SubSeq(curatedHistory, 1, compressBeforeIndex)
           historyToKeep == SubSeq(curatedHistory, compressBeforeIndex + 1,
                                   Len(curatedHistory))
           set == setHistory(chat, historyToCompress)
       IN  IF tokens = UndefinedCount \/ (~f.force /\ UnderThreshold(tokens))
           THEN Apply(i, AfterCompress([f EXCEPT !.original = tokens], chat,
                                       Disturbed(i), UndefinedCount, ideContext))
           ELSE Apply(i, Step([f EXCEPT !.pc = "sendMessage",
                                        !.original = tokens,
                                        !.keep = historyToKeep,
                                        !.target = chat.id,
                                        !.started = TRUE,
                                        !.seen = set,
                                        !.disturbed = Disturbed(i)],
                              FALSE, set, compression, 0))
    /\ UNCHANGED <<sessionTurnCount, setCalls>>
    /\ UNCHANGED nonSessionVars

\* the summary request of lines 729-739 resolves: the chat it was sent on
\* has recorded the exchange, and startChat is called, line 740
SummaryResolves(i, summary) ==
    /\ At(i, "sendMessage")
    /\ LET f == clientCalls[i]
           sent == IF chat.id = f.target
                   THEN sendMessage(chat, SummaryRequest, summary) ELSE chat
       IN  Apply(i, Step([f EXCEPT !.pc = "startChat", !.summary = summary,
                                   !.seen = sent, !.disturbed = Disturbed(i)],
                         FALSE, sent, compression, 0))
    /\ UNCHANGED <<sessionTurnCount, setCalls>>
    /\ UNCHANGED nonSessionVars

\* the summary request rejects: tryCompressChat throws, and so does the
\* sendMessageStream call that awaits it
SummaryThrows(i) ==
    /\ At(i, "sendMessage")
    /\ Apply(i, Step(clientCalls[i], TRUE, chat,
                     Recorded(clientCalls[i], chat, Disturbed(i), "throws"),
                     0))
    /\ UNCHANGED <<sessionTurnCount, setCalls>>
    /\ UNCHANGED nonSessionVars

\* startChat resolves: this.chat is the new chat of lines 740-750, and the
\* second countTokens call is awaited
RestartResolves(i) ==
    /\ At(i, "startChat")
    /\ chat.id < MaxChats
    /\ LET f == clientCalls[i]
           restarted ==
               [id |-> chat.id + 1,
                history |-> startChat(<<TextContent("user", f.summary),
                                        GotItAdditional>> \o f.keep)]
       IN  Apply(i, Step([f EXCEPT !.pc = "recount", !.seen = restarted,
                                   !.disturbed = Disturbed(i)],
                         FALSE, restarted, compression, 0))
    /\ UNCHANGED <<sessionTurnCount, setCalls>>
    /\ UNCHANGED nonSessionVars

\* startChat throws 'Failed to initialize chat'
RestartThrows(i) ==
    /\ At(i, "startChat")
    /\ Apply(i, Step(clientCalls[i], TRUE, chat,
                     Recorded(clientCalls[i], chat, Disturbed(i), "throws"),
                     0))
    /\ UNCHANGED <<sessionTurnCount, setCalls>>
    /\ UNCHANGED nonSessionVars

\* the countTokens call of lines 752-757 answers: lines 758-766
RecountResolves(i, tokens, ideContext) ==
    /\ At(i, "recount")
    /\ Apply(i, AfterCompress(clientCalls[i], chat, Disturbed(i), tokens,
                              ideContext))
    /\ UNCHANGED <<sessionTurnCount, setCalls>>
    /\ UNCHANGED nonSessionVars

\* the await of line 327 resumes with the null an empty history gave:
\* lines 333-391
ResumeAfterNull(i, ideContext) ==
    /\ At(i, "compressNull")
    /\ Apply(i, Route(clientCalls[i], chat, compression, ideContext))
    /\ UNCHANGED <<sessionTurnCount, setCalls>>
    /\ UNCHANGED nonSessionVars

\* the consumer asks for the event after ChatCompressed: lines 333-391
ResumeAfterCompressed(i, ideContext) ==
    /\ At(i, "compressedYielded")
    /\ Apply(i, Route(clientCalls[i], chat, compression, ideContext))
    /\ UNCHANGED <<sessionTurnCount, setCalls>>
    /\ UNCHANGED nonSessionVars

\* loopDetector.turnStarted answers: lines 392-398, the yield of
\* LoopDetected, or the Turn.run call and the await of its first event
TurnStartedResolves(i, loopDetected) ==
    /\ At(i, "turnStarted")
    /\ LET f == clientCalls[i]
       IN  IF loopDetected
           THEN Apply(i, Step([f EXCEPT !.pc = "lastYield",
                                        !.yielded = Append(@, [type |-> "LoopDetected"])],
                              FALSE, chat, compression, 0))
           ELSE Apply(i, Step([f EXCEPT !.pc = "stream",
                                        !.runs = <<[turn |-> 0,
                                                    request |-> f.routed,
                                                    signal |-> f.signal]>>],
                              FALSE, chat, compression, 1))
    /\ UNCHANGED <<sessionTurnCount, setCalls>>
    /\ UNCHANGED nonSessionVars

\* the Turn's next event arrives, the consumer having asked for it: lines
\* 398-404, with the answer of loopDetector.addAndCheck
TurnEvent(i, loop) ==
    /\ At(i, "stream")
    /\ clientCalls[i].received < Len(TurnEvents)
    /\ LET f == clientCalls[i]
           event == TurnEvents[f.received + 1]
       IN  IF loop
           THEN Apply(i, Step([f EXCEPT !.pc = "lastYield",
                                        !.received = @ + 1,
                                        !.yielded = Append(@, [type |-> "LoopDetected"])],
                              FALSE, chat, compression, 0))
           ELSE Apply(i, Step([f EXCEPT !.received = @ + 1,
                                        !.yielded = Append(@, event)],
                              FALSE, chat, compression, 0))
    /\ UNCHANGED <<sessionTurnCount, setCalls>>
    /\ UNCHANGED nonSessionVars

\* the Turn's stream ends: lines 405-418. check: no tool call is pending,
\* the signal is not aborted and the model was not switched, so that
\* checkNextSpeaker is awaited; else the invocation returns
StreamEnds(i, check) ==
    /\ At(i, "stream")
    /\ clientCalls[i].received = Len(TurnEvents)
    /\ Apply(i, Step([clientCalls[i] EXCEPT !.pc = IF check THEN "nextSpeaker"
                                                   ELSE "returned"],
                     ~check, chat, compression, 0))
    /\ UNCHANGED <<sessionTurnCount, setCalls>>
    /\ UNCHANGED nonSessionVars

\* checkNextSpeaker answers: lines 419-435. With 'model' the recursive call
\* is made and runs to its first await or yield; the generator goes on as
\* the recursive invocation and ends when that one returns
NextSpeaker(i, next) ==
    /\ At(i, "nextSpeaker")
    /\ LET f == clientCalls[i]
       IN  IF next = "model"
           THEN /\ sessionTurnCount' = sessionTurnCount + 1
                /\ LET r == StartFrame(<<[text |-> PleaseContinue]>>, f.signal,
                                       f.prompt_id,
                                       Min(f.turns, MAX_TURNS) - 1,
                                       sessionTurnCount + 1,
                                       chat, compression)
                   IN  Apply(i, [r EXCEPT !.call.earlier = f.earlier \o f.yielded])
           ELSE /\ UNCHANGED sessionTurnCount
                /\ Apply(i, Step([f EXCEPT !.pc = "returned"], TRUE, chat,
                                 compression, 0))
    /\ UNCHANGED setCalls
    /\ UNCHANGED nonSessionVars

NextSpeakerResolves(i, next) ==
    /\ next = "model" => sessionTurnCount < MaxSends
    /\ NextSpeaker(i, next)

\* the merged stream of executeConcurrentStreams gives its next event, the
\* consumer having asked for it: the yield of line 382
MergeEvent(i) ==
    /\ At(i, "merge")
    /\ clientCalls[i].received < MaxMergeEvents
    /\ Apply(i, Step([clientCalls[i] EXCEPT
                         !.received = @ + 1,
                         !.yielded = Append(@, [type |-> "mergeStreams",
                                                merge |-> 1])],
                     FALSE, chat, compression, 0))
    /\ UNCHANGED <<sessionTurnCount, setCalls>>
    /\ UNCHANGED nonSessionVars

\* the merged stream ends, after any number of events: the return of line
\* 385
MergeEnds(i) ==
    /\ At(i, "merge")
    /\ Apply(i, Step([clientCalls[i] EXCEPT !.pc = "returned"], TRUE, chat,
                     compression, 0))
    /\ UNCHANGED <<sessionTurnCount, setCalls>>
    /\ UNCHANGED nonSessionVars

\* the consumer asks for the event after the last one: the generator
\* returns (lines 316, 394, 401)
Return(i) ==
    /\ i \in DOMAIN clientCalls
    /\ clientCalls[i].pc \in {"limitYielded", "lastYield"}
    /\ Apply(i, Step([clientCalls[i] EXCEPT !.pc = "returned"], TRUE, chat,
                     compression, 0))
    /\ UNCHANGED <<sessionTurnCount, setCalls>>
    /\ UNCHANGED nonSessionVars

\* the consumer closes the generator (return()) where it is suspended at a
\* yield with work left
Close(i) ==
    /\ i \in DOMAIN clientCalls
    /\ \/ clientCalls[i].pc = "compressedYielded"
       \/ clientCalls[i].pc \in {"stream", "merge"} /\ clientCalls[i].received > 0
    /\ Apply(i, Step([clientCalls[i] EXCEPT !.pc = "closed"], TRUE, chat,
                     compression, 0))
    /\ UNCHANGED <<sessionTurnCount, setCalls>>
    /\ UNCHANGED nonSessionVars

\* addHistory(content)
AddHistory(content) ==
    /\ Len(chat.history) < MaxHistory
    /\ chat' = [chat EXCEPT !.history = Append(@, content)]
    /\ compression' = NoCompression
    /\ UNCHANGED <<clientCalls, sessionTurnCount, ranTurn, setCalls>>
    /\ UNCHANGED nonSessionVars

\* addHistory in a session with calls in flight
SessionAddHistory(content) ==
    /\ Len(chat.history) < MaxSessionHistory
    /\ AddHistory(content)

\* setHistory(history)
SetHistory(history) ==
    /\ setCalls < MaxSetHistory
    /\ setCalls' = setCalls + 1
    /\ chat' = setHistory(chat, history)
    /\ compression' = NoCompression
    /\ UNCHANGED <<clientCalls, sessionTurnCount, ranTurn>>
    /\ UNCHANGED nonSessionVars

\* resetChat()
ResetChat ==
    /\ chat.id < MaxChats
    /\ chat' = [id |-> chat.id + 1, history |-> startChat(<<>>)]
    /\ compression' = NoCompression
    /\ UNCHANGED <<clientCalls, sessionTurnCount, ranTurn, setCalls>>
    /\ UNCHANGED nonSessionVars

\* the steps of tryCompressChat calls, of the caller or of sendMessageStream
CompressNext ==
    \/ \E i \in 1..MaxOpen, tokens \in TokenCounts, ideContext \in IdeContexts :
          CountTokensResolves(i, tokens, ideContext)
    \/ \E i \in 1..MaxOpen, summary \in Summaries : SummaryResolves(i, summary)
    \/ \E i \in 1..MaxOpen : SummaryThrows(i)
    \/ \E i \in 1..MaxOpen : RestartResolves(i)
    \/ \E i \in 1..MaxOpen : RestartThrows(i)
    \/ \E i \in 1..MaxOpen, tokens \in NewTokenCounts, ideContext \in IdeContexts :
          RecountResolves(i, tokens, ideContext)

ClientNext ==
    \/ \E req \in SessionRequests, signal \in {"signal1"},
          turns \in {0, MAX_TURNS + 1} : SendMessageStream(req, signal, turns)
    \/ CompressNext
    \/ \E i \in 1..MaxOpen, ideContext \in IdeContexts :
          ResumeAfterNull(i, ideContext)
    \/ \E i \in 1..MaxOpen, ideContext \in IdeContexts :
          ResumeAfterCompressed(i, ideContext)
    \/ \E i \in 1..MaxOpen, loopDetected \in BOOLEAN :
          TurnStartedResolves(i, loopDetected)
    \/ \E i \in 1..MaxOpen, loop \in BOOLEAN : TurnEvent(i, loop)
    \/ \E i \in 1..MaxOpen, check \in BOOLEAN : StreamEnds(i, check)
    \/ \E i \in 1..MaxOpen, next \in {"model", "user"} :
          NextSpeakerResolves(i, next)
    \/ \E i \in 1..MaxOpen : MergeEvent(i)
    \/ \E i \in 1..MaxOpen : MergeEnds(i)
    \/ \E i \in 1..MaxOpen : Return(i)
    \/ \E i \in 1..MaxOpen : Close(i)
    \/ \E content \in SessionContents : SessionAddHistory(content)
    \/ \E history \in Histories : SetHistory(history)
    \/ ResetChat

\* a new client with no session limit
ChainInit ==
    /\ clientConfig \in ChainConfigs
    /\ sessionTurnCount = 0
    /\ request = <<>>
    /\ analysis = NotParsed
    /\ execution = NoExecution
    /\ clientCalls = <<>>
    /\ ranTurn = 0

\* one top-level sendMessageStream call on a new client, with any turns
\* argument
ChainStart(req, turns) ==
    /\ sessionTurnCount = 0
    /\ SendMessageStream(req, "signal1", turns)

\* its chat is not compressed
ChainCountTokens(tokens, ideContext) ==
    /\ tokens = UndefinedCount \/ UnderThreshold(tokens)
    /\ CountTokensResolves(1, tokens, ideContext)

\* the loop detector reports no loop
ChainTurnStarted ==
    /\ At(1, "turnStarted")
    /\ TurnStartedResolves(1, FALSE)

\* the Turn's events are passed on, the loop detector finding no loop
ChainTurnEvent ==
    /\ At(1, "stream")
    /\ TurnEvent(1, FALSE)

\* the next-speaker check is made and answers 'model' every time: the
\* recursive invocation of lines 425-431
ChainStreamEnds ==
    /\ At(1, "stream")
    /\ StreamEnds(1, TRUE)

ChainContinue ==
    /\ sessionTurnCount < MaxChain
    /\ NextSpeaker(1, "model")

ChainNext ==
    \/ \E req \in ClientRequests, turns \in {-1, 0, 1, MAX_TURNS, MAX_TURNS + 1} :
          ChainStart(req, turns)
    \/ \E tokens \in TokenCounts, ideContext \in IdeContexts :
          ChainCountTokens(tokens, ideContext)
    \/ ChainTurnStarted
    \/ ChainTurnEvent
    \/ ChainStreamEnds
    \/ ChainContinue

\* the caller's addHistory, resetChat and tryCompressChat calls
ChatNext ==
    \/ \E content \in Contents : AddHistory(content)
    \/ \E history \in Histories : SetHistory(history)
    \/ ResetChat
    \/ \E force \in BOOLEAN : AwaitedTryCompressChat(force)
    \/ CompressNext

\* parseConcurrentSyntax and executeConcurrentStreams called on their own
ParserInit ==
    /\ clientConfig \in ParserConfigs
    /\ request \in ParserRequests
    /\ sessionTurnCount = 0
    /\ analysis = NotParsed
    /\ execution = NoExecution
    /\ clientCalls = <<>>
    /\ ranTurn = 0

\* client['parseConcurrentSyntax'](request)
ParseConcurrentSyntax ==
    /\ ~analysis.parsed
    /\ analysis' = [parsed |-> TRUE] @@ parseConcurrentSyntax(request, clientConfig)
    /\ UNCHANGED <<clientConfig, sessionTurnCount, request, execution,
                   clientCalls, ranTurn>>
    /\ UNCHANGED nonClientVars

\* client['executeConcurrentStreams'](calls, signal, prompt_id) on the calls
\* the parser returned: the arguments, and what the method did
ExecuteConcurrentStreams(signal) ==
    /\ analysis.parsed
    /\ execution = NoExecution
    /\ execution' = [calls |-> analysis.calls, signal |-> signal]
                       @@ executeConcurrentStreams(analysis.calls, signal, PromptId)
    /\ UNCHANGED <<clientConfig, sessionTurnCount, request, analysis,
                   clientCalls, ranTurn>>
    /\ UNCHANGED nonClientVars

ParserNext ==
    \/ ParseConcurrentSyntax
    \/ \E signal \in Signals : ExecuteConcurrentStreams(signal)

ClientIdle ==
    /\ clientConfig = [concurrencyEnabled |-> TRUE, forcedMode |-> Undefined,
                       maxSessionTurns |-> 0, maxConcurrentCalls |-> 3]
    /\ sessionTurnCount = 0
    /\ request = <<>>
    /\ analysis = NotParsed
    /\ execution = NoExecution
    /\ clientCalls = <<>>
    /\ ranTurn = 0

ChatIdle ==
    /\ chat = NoChat
    /\ compression = NoCompression
    /\ setCalls = 0

(***************************************************************************)
(* Specifications.                                                         *)
(***************************************************************************)
LockSpecInit == LockInit /\ AggIdle /\ MxIdle /\ RetryIdle /\ ClientIdle /\ ChatIdle

LockSpec == LockSpecInit /\ [][LockNext]_vars

AggNext == AggYield \/ AggDone \/ AggThrow \/ AggResume

AggSpecInit == AggInit /\ LockInit /\ MxIdle /\ RetryIdle /\ ClientIdle /\ ChatIdle

AggSpec == AggSpecInit /\ [][AggNext]_vars

\* timers of Node.js fire: every armed timeout and every poll interval runs
LockFairSpec ==
    /\ LockSpec
    /\ \A i \in 1..MaxAcquire : WF_vars(PollTick(i))
    /\ \A i \in 1..MaxAcquire : WF_vars(Timeout(i))

MxSpecInit == MxInit /\ LockInit /\ AggIdle /\ RetryIdle /\ ClientIdle /\ ChatIdle

MxSpec == MxSpecInit /\ [][MxNext]_vars

\* the loop is suspended at the await of line 47 on a race no promise of
\* which has settled: nothing of the merge runs, so the timer or the I/O a
\* generator waits for is served
MxParked == mxPc = "race" /\ winner = 0

\* a generator settles a next() call it can settle while the loop is parked;
\* the loop runs, and the consumer keeps asking for events.  Once a promise
\* has settled the loop goes round on it through microtasks only, and
\* nothing makes a generator that waits for a timer or for I/O settle
MxFairSpec ==
    /\ MxSpec
    /\ \A i \in 1..MaxStreams : WF_vars(MxParked /\ MxSettle(i))
    /\ WF_vars(MxDone) /\ WF_vars(MxYield) /\ WF_vars(MxResume) /\ WF_vars(MxCatch)

\* interleavedMerge on the generators of the model
ImSpec == MxSpecInit /\ [][ImNext]_vars

RetrySpecInit == RetryInit /\ LockInit /\ AggIdle /\ MxIdle /\ ClientIdle /\ ChatIdle

RetrySpec == RetrySpecInit /\ [][RetryNext]_vars

ClientSpecInit == ClientInit /\ ChatInit /\ LockInit /\ AggIdle /\ MxIdle /\ RetryIdle

ChainSpecInit == ChainInit /\ ChatInit /\ LockInit /\ AggIdle /\ MxIdle /\ RetryIdle

\* a session of sendMessageStream invocations
ClientSpec == ClientSpecInit /\ [][ClientNext]_vars

\* the chain of invocations of one top-level sendMessageStream call
ChainSpec == ChainSpecInit /\ [][ChainNext]_vars

ParserSpecInit == ParserInit /\ ChatInit /\ LockInit /\ AggIdle /\ MxIdle /\ RetryIdle

ParserSpec == ParserSpecInit /\ [][ParserNext]_vars

\* the caller aborts the run's AbortSignal; neither acquireLock nor
\* executeWithRetry has a signal parameter, so that nothing of their state
\* changes with it
RunAbort ==
    /\ ~aborted
    /\ aborted' = TRUE
    /\ UNCHANGED <<generators, promises, served, winner, mxPc, mxOutput,
                   mxOrigin, caught>>
    /\ UNCHANGED nonMxVars

RetryCancelNext == RetryNext \/ RunAbort

\* executeWithRetry calls in a run whose signal may be aborted at any time
RetryCancelSpec == RetrySpecInit /\ [][RetryCancelNext]_vars

ChatSpecInit ==
    ChatInit /\ LockInit /\ AggIdle /\ MxIdle /\ RetryIdle /\ ClientIdle

\* a session of addHistory, resetChat and tryCompressChat calls
ChatSpec == ChatSpecInit /\ [][ChatNext]_vars

(***************************************************************************)
(* FileLockManager properties.                                             *)
(***************************************************************************)
\* the acquireLock calls that were returned a FileLock for p and whose lock
\* has not been passed to releaseLock yet
Holders(p) ==
    {i \in DOMAIN acq : acq[i].path = p /\ acq[i].promise = "resolved"
                        /\ ~acq[i].released}

\* the request of acquireLock call i is in the queue of its path
InQueue(i) == \E k \in 1..Len(queue[acq[i].path]) : queue[acq[i].path][k].req = i

\* C1: mutual exclusion (I1). For every path the lock map holds at most one
\* live FileLock, at most one caller holds a FileLock returned by acquireLock
\* and not yet released, and that lock is the live lock of the path.
C1_MutualExclusion ==
    \A p \in Paths :
        /\ Cardinality(Holders(p)) <= 1
        /\ \A i \in Holders(p) :
              /\ isLocked(p)
              /\ getLockInfo(p).lockId = acq[i].lockId
              /\ getLockInfo(p).path = p
        /\ Cardinality({q \in Paths : isLocked(q) /\ getLockInfo(q).path = p}) <= 1

\* C1 witness: a caller holds the lock of a path while a second acquireLock
\* on the same path has been made and is waiting.
C1_Witness ==
    \E i, j \in DOMAIN acq :
        /\ i # j /\ acq[i].path = acq[j].path
        /\ i \in Holders(acq[i].path)
        /\ acq[j].wasLocked /\ acq[j].promise = "pending"

\* processQueue shifted the request of call i before its timeout elapsed
Popped(i) == i \in DOMAIN acq /\ acq[i].popped

\* acquireLock call i was returned a FileLock
Granted(i) == i \in DOMAIN acq /\ acq[i].promise = "resolved" /\ acq[i].lockId # 0

\* C2: grant on release. A request that processQueue shifts from the head of
\* the queue while its timeout has not elapsed eventually has its acquireLock
\* resolved with a FileLock.
C2_GrantOnRelease == \A i \in 1..MaxAcquire : [](Popped(i) => <>Granted(i))

\* C3: FIFO fairness (I2). Of two requests queued on the same path that both
\* get the lock (neither times out), the one enqueued first gets it first;
\* lock ids are issued in increasing order, so they order the grants.
C3_FifoOrder ==
    \A i, j \in DOMAIN acq :
        (/\ i < j
         /\ acq[i].path = acq[j].path
         /\ acq[i].wasLocked /\ acq[j].wasLocked
         /\ acq[i].promise = "resolved" /\ acq[j].promise = "resolved")
        => acq[i].lockId < acq[j].lockId

\* the queue without the request of acquireLock call i
WithoutRequest(q, i) == SelectSeq(q, LAMBDA r : r.req # i)

\* C4: lock wait timeout. When the timeout of a queued request elapses, its
\* acquireLock is rejected with the timeout error and exactly that request
\* leaves the queue of its path; every other request stays.
C4_TimeoutRemovesOwnRequest ==
    [][\A i \in DOMAIN acq :
          (Timeout(i) /\ InQueue(i))
          => /\ acq'[i].promise = "rejected" /\ acq'[i].error = "timeout"
             /\ queue' = [queue EXCEPT ![acq[i].path] = WithoutRequest(@, i)]]_vars

\* the lockId is that of no live lock: unknown, or already released
NotLive(lockId) == \A p \in Paths : ~isLocked(p) \/ getLockInfo(p).lockId # lockId

\* C5: releaseLock is idempotent. A releaseLock call whose lockId is unknown
\* or already released leaves the lock map, every queue and the lock files
\* unchanged: a step that changes one of them is no such call.
C5_ReleaseIdempotent ==
    [][\/ UNCHANGED <<locks, queue, files, nextLockId>>
       \/ ~\E lockId \in LockIds :
              NotLive(lockId) /\ ReleaseLock(lockId)]_vars

\* C5 witness: releaseLock was just called with an id that is not the id of
\* a live lock, while a lock is live, a request is queued behind it and an
\* earlier lock has already been released.
C5_Witness ==
    /\ last = "miss"
    /\ \E i \in DOMAIN acq : acq[i].released /\ ~isLocked(acq[i].path)
    /\ \E p \in Paths : isLocked(p) /\ queue[p] # <<>>

\* C6: immediate grant. An acquireLock call on a path that is not locked is
\* returned a FileLock at once, without being enqueued, whatever is locked on
\* other paths.
C6_ImmediateGrant ==
    \A i \in DOMAIN acq :
        ~acq[i].wasLocked
        => /\ acq[i].promise = "resolved" /\ acq[i].lockId # 0
           /\ ~InQueue(i)

(***************************************************************************)
(* StreamAggregator properties.                                            *)
(***************************************************************************)
\* the indices of the yielded events that stream i produced itself (regular
\* events), and of the error events synthesized for stream i
RegularFrom(i) == {k \in DOMAIN output : origin[k][1] = i /\ origin[k][2] > 0}
ErrorsFor(i) == {k \in DOMAIN output : origin[k][1] = i /\ origin[k][2] = 0}

\* no stream of the run stalls: each completes or throws after its events
NoStall == \A i \in DOMAIN streams : streams[i].end # "stall"

\* the output position of the event stream i emitted at position n
PlaceOf(i, n) == CHOOSE k \in DOMAIN output : origin[k] = <<i, n>>

\* one call per stream, and no two calls with the same id
DistinctIds ==
    /\ Len(calls) = Len(streams)
    /\ \A a, b \in DOMAIN calls : calls[a].id = calls[b].id => a = b

\* C7: failure isolation. When every stream completes or throws after its
\* events, the merge is never stuck before it returns, and once it has
\* returned each stream's events were all yielded (sum(e_i) regular events
\* in total), each throwing stream has exactly one synthesized Error event
\* carrying the callId the aggregator gave that stream (the id of its call
\* when the calls have distinct ids), and no other stream has one.
C7_FailureIsolation ==
    NoStall =>
        /\ cur # 0 => ENABLED AggNext
        /\ cur = 0 =>
              \A i \in DOMAIN streams :
                 /\ Cardinality(RegularFrom(i)) = Len(streams[i].events)
                 /\ \A k \in RegularFrom(i) : output[k].type # "error"
                 /\ Cardinality(ErrorsFor(i)) =
                        (IF streams[i].end = "throw" THEN 1 ELSE 0)
                 /\ \A k \in ErrorsFor(i) :
                        /\ output[k].type = "error"
                        /\ output[k].callId = gens[i].callId
                        /\ DistinctIds => output[k].callId = calls[i].id

\* C7 witness: the merge returned after a stream threw having emitted an
\* event, and a later stream that did not fail had all its events yielded.
C7_Witness ==
    /\ cur = 0 /\ Len(streams) = 2
    /\ streams[1].end = "throw" /\ Len(streams[1].events) = 1
    /\ streams[2].end = "done" /\ Len(streams[2].events) = 2
    /\ Cardinality(RegularFrom(2)) = 2
    /\ Cardinality(ErrorsFor(1)) = 1

\* C8: intra-unit ordering. At every point of the merge, the yielded events
\* that came from a stream are exactly the events the stream has emitted so
\* far, each once, in emission order and with type and value unchanged; when
\* the merge has returned that is the stream's whole emission sequence.
C8_IntraUnitOrder ==
    \A i \in DOMAIN streams :
        /\ Cardinality(RegularFrom(i)) = gens[i].pos
        /\ \A n \in 1..gens[i].pos :
              /\ \E k \in DOMAIN output : origin[k] = <<i, n>>
              /\ output[PlaceOf(i, n)].type = streams[i].events[n].type
              /\ output[PlaceOf(i, n)].value = streams[i].events[n].value
              /\ n > 1 => PlaceOf(i, n - 1) < PlaceOf(i, n)
        /\ (cur = 0 /\ streams[i].end # "stall")
              => gens[i].pos = Len(streams[i].events)

\* C8 witness: the merge returned after interleaving two streams of two
\* different events each.
C8_Witness ==
    /\ cur = 0 /\ Len(streams) = 2
    /\ \A i \in {1, 2} : /\ Len(streams[i].events) = 2
                         /\ Cardinality(RegularFrom(i)) = 2
    /\ PlaceOf(1, 2) > PlaceOf(2, 1)

\* the merge awaits a next() that never settles
Blocked ==
    /\ cur # 0
    /\ held = "none"
    /\ gens[cur].pos = Len(streams[cur].events)
    /\ streams[cur].end = "stall"

\* C9: no blocking on a subset of units. While the merge awaits a stream whose
\* next event never comes, no other stream is left with an event it has ready
\* and the merge has not yielded: in that state the merge takes no further
\* step, so such an event would never be yielded.
C9_NoHeadOfLineBlocking ==
    Blocked =>
        \A j \in DOMAIN streams :
            j # cur => gens[j].pos = Len(streams[j].events)

\* C10: attribution. With one stream per call and no empty prompt (for which
\* the title falls back to the id), every yielded event carries the id of
\* the call whose stream produced it and that call's prompt as callTitle,
\* and a regular event keeps its type and value.
C10_Attribution ==
    (Len(calls) = Len(streams) /\ \A c \in DOMAIN calls : calls[c].prompt # "") =>
        \A k \in DOMAIN output :
            LET i == origin[k][1]
                n == origin[k][2]
            IN  /\ output[k].callId = calls[i].id
                /\ output[k].callTitle = calls[i].prompt
                /\ n > 0 => /\ output[k].type = streams[i].events[n].type
                            /\ output[k].value = streams[i].events[n].value

(***************************************************************************)
(* StreamMultiplexer properties.                                           *)
(***************************************************************************)
\* the places of the output where the event of request n of generator i is
Places(i, n) == {k \in DOMAIN mxOutput : mxOrigin[k] = <<i, n>>}

\* C11: exactly-once delivery. While the signal is not aborted, no event a
\* generator emitted is in the output of mergeStreamsWithMetadata more than
\* once, every event a generator was asked for and has emitted is in it once
\* the merge has returned, and each yielded event has the type and value of
\* the emitted one and the callId, originalPrompt and executionId of the
\* generator that emitted it.
C11_ExactlyOnce ==
    ~aborted =>
        /\ \A i \in DOMAIN generators : \A n \in 1..Len(generators[i].events) :
              /\ Cardinality(Places(i, n)) <= 1
              /\ (mxPc = "returned" /\ generators[i].end = "done")
                    => Cardinality(Places(i, n)) = 1
        /\ \A k \in DOMAIN mxOutput :
              LET g == generators[mxOrigin[k][1]]
                  n == mxOrigin[k][2]
              IN  /\ mxOutput[k].type = g.events[n].type
                  /\ mxOutput[k].value = g.events[n].value
                  /\ mxOutput[k].metadata.callId = g.callId
                  /\ mxOutput[k].metadata.originalPrompt = g.originalPrompt
                  /\ mxOutput[k].metadata.executionId = g.executionId

\* every generator of the run completes after finitely many events
AllComplete ==
    /\ generators # <<>>
    /\ \A i \in DOMAIN generators : generators[i].end = "done"

\* C12: termination. When every generator completes after its events, the
\* signal is never aborted and the consumer takes every event (the run stays
\* below MaxYields), mergeStreamsWithMetadata eventually returns.
C12_Terminates ==
    (AllComplete /\ [](~aborted /\ Len(mxOutput) < MaxYields))
        => <>(mxPc = "returned")

\* the Error events of the output attributed to generator i
MxErrorsFor(i) ==
    {k \in DOMAIN mxOutput :
        /\ mxOutput[k].type = "error"
        /\ mxOutput[k].metadata.callId = generators[i].callId}

\* C13: failure isolation. Once the rejection of a generator has reached the
\* catch block, the output holds one Error event attributed to that
\* generator, and no next() of that generator is outstanding or made again.
C13_MxFailureIsolation ==
    \A i \in caught :
        /\ Cardinality(MxErrorsFor(i)) = 1
        /\ Called(promises, i) = served[i]

\* next() calls of generator i that have not settled
Outstanding(i) == Called(promises, i) - served[i]

\* generator i has answered a next() call with done or by throwing
Finished(i) ==
    \E n \in 1..served[i] :
        NextResult(generators[i], n).kind \in {"done", "rejected"}

\* C14: bounded look-ahead. In mergeStreamsWithMetadata every generator has
\* at most one next() call outstanding, and none once it has completed or
\* failed; in mergeStreams the one generator being awaited is not a done one.
C14_BoundedLookAhead ==
    /\ \A i \in DOMAIN generators :
          /\ Outstanding(i) <= 1
          /\ Finished(i) => Outstanding(i) = 0
    /\ \A i \in DOMAIN gens : gens[i].done => cur # i

(***************************************************************************)
(* RetryManager properties.                                                *)
(***************************************************************************)
\* the pattern is written /.../: a body between two slashes
WrittenAsRegex(pattern) ==
    /\ Len(pattern) >= 2
    /\ pattern[1] = "/"
    /\ pattern[Len(pattern)] = "/"

\* the message matches a configured matcher: it contains the pattern, or the
\* pattern is written /.../ and its body, a regex, matches the message
MatchesSome(message, config) ==
    \E j \in 1..Len(config.retryableErrors) :
        LET pattern == config.retryableErrors[j]
        IN  \/ Includes(message, pattern)
            \/ /\ WrittenAsRegex(pattern)
               /\ ~RegExpThrows(Slice1(pattern))
               /\ RegExpTest(Slice1(pattern), message)

\* C15: retry classification. An attempt is retried only if the message of
\* its error matches a configured matcher; when the first failure of a call
\* matches none, the operation was invoked once and that error is thrown
\* with no backoff wait.
C15_RetryClassification ==
    \A c \in DOMAIN executions :
        LET e == executions[c]
        IN  /\ \A n \in 1..Len(e.delays) :
                  MatchesSome(e.errors[n].message, e.retryConfig)
            /\ (Len(e.errors) >= 1
                /\ ~MatchesSome(e.errors[1].message, e.retryConfig))
                  => /\ e.pc = "thrown" /\ e.thrown = e.errors[1]
                     /\ e.invoked = 1 /\ e.delays = <<>>

\* C16: retry exhaustion. A call that threw and whose attempts all failed
\* with a retryable error invoked the operation maxRetries + 1 times, and the
\* error it threw is the error of its last attempt.
C16_RetryExhaustion ==
    \A c \in DOMAIN executions :
        LET e == executions[c]
        IN  (/\ e.pc = "thrown"
             /\ \A n \in 1..Len(e.errors) : isRetryableError(e.errors[n], e.retryConfig))
            => /\ e.invoked = e.retryConfig.maxRetries + 1
               /\ e.thrown = e.errors[Len(e.errors)]
               /\ e.thrown.by = <<c, e.invoked>>

\* the executeWithRetry call has neither returned nor thrown
InFlight(c) == executions[c].pc \in {"operation", "backoff"}

\* C17: retry context lifecycle. The retry map has an entry for a callId only
\* while an executeWithRetry call for that callId is in flight, and the entry
\* is a context of that callId: when all calls for the id have returned or
\* thrown, getRetryContext(callId) is undefined.
C17_ContextLifecycle ==
    \A id \in RetryCallIds :
        getRetryContext(retryContexts, id) # NoContext
        => /\ \E c \in DOMAIN executions : InFlight(c) /\ executions[c].callId = id
           /\ contexts[getRetryContext(retryContexts, id)].callId = id

\* C17 witness: a call has thrown after a retry and another has returned,
\* both for ids that have no entry any more, and contexts were created.
C17_Witness ==
    /\ Len(executions) = 2
    /\ executions[1].pc = "thrown" /\ Len(executions[1].delays) >= 1
    /\ executions[2].pc = "returned"
    /\ Len(contexts) >= 1
    /\ \A id \in RetryCallIds : getRetryContext(retryContexts, id) = NoContext

\* C18: one retry in flight per callId. Two executeWithRetry calls that are
\* in flight together never use the same RetryContext, and the attempt count
\* of a call's context is the number of retries that call has made.
C18_OneInFlightPerId ==
    \A c \in DOMAIN executions :
        InFlight(c) =>
            /\ \A d \in DOMAIN executions :
                  (d # c /\ InFlight(d))
                  => executions[d].context # executions[c].context
            /\ contexts[executions[c].context].attempt = Len(executions[c].delays)

\* executeWithRetry run alone on an operation whose attempts fail with these
\* messages, from a context at this attempt: the delays it waits, and
\* whether it throws at the last of them (lines 83-115)
RECURSIVE ExecuteAlone(_, _, _)
ExecuteAlone(config, messages, attempt) ==
    IF messages = <<>> THEN [delays |-> <<>>, thrown |-> FALSE]
    ELSE IF \/ attempt >= config.maxRetries
            \/ ~isRetryableError([message |-> Head(messages)], config)
         THEN [delays |-> <<>>, thrown |-> TRUE]
         ELSE LET r == ExecuteAlone(config, Tail(messages), attempt + 1)
              IN  [delays |-> <<calculateBackoff(attempt + 1, config)>> \o r.delays,
                   thrown |-> r.thrown]

\* no other executeWithRetry call of the run has the callId of call c
OwnId(c) ==
    \A d \in DOMAIN executions :
        d # c => executions[d].callId # executions[c].callId

\* C19: retry independence. A call whose callId no other call of the run has
\* waits the delays, makes the number of attempts and ends the way it does
\* when run alone on the same operation, whatever the other calls do.
C19_Independence ==
    \A c \in DOMAIN executions :
        OwnId(c) =>
            LET e == executions[c]
                messages == [n \in 1..Len(e.errors) |-> e.errors[n].message]
                alone == ExecuteAlone(e.retryConfig, messages, 0)
            IN  /\ e.delays = alone.delays
                /\ (e.pc = "thrown") = alone.thrown
                /\ e.pc = "thrown" => e.thrown = e.errors[Len(e.errors)]
                /\ e.invoked = IF e.pc = "backoff" THEN Len(e.delays)
                               ELSE Len(e.delays) + 1

\* C19 witness: two calls with different callIds and different configs
\* overlapped, each retried, and one has thrown when its retries ran out.
C19_Witness ==
    /\ Len(executions) = 2
    /\ executions[1].callId # executions[2].callId
    /\ executions[1].retryConfig # executions[2].retryConfig
    /\ executions[1].pc = "thrown"
    /\ Len(executions[1].delays) = executions[1].retryConfig.maxRetries
    /\ Len(executions[1].delays) = 2
    /\ executions[1].errors[2].by[2] = 2
    /\ executions[2].pc = "backoff"
    /\ executions[2].errors[1].by = <<2, 1>>
    /\ contexts[executions[2].context].attempt = 1

\* C20: backoff schedule. The delay a call waits before its n-th retry is
\* backoffMs * 2^(n-1) with exponentialBackoff and backoffMs without, and
\* during that wait the attempt field of its context is n.
C20_BackoffSchedule ==
    \A c \in DOMAIN executions :
        LET e == executions[c]
        IN  /\ \A n \in 1..Len(e.delays) :
                  e.delays[n] = IF e.retryConfig.exponentialBackoff
                                THEN e.retryConfig.backoffMs * 2^(n - 1)
                                ELSE e.retryConfig.backoffMs
            /\ e.pc = "backoff"
                  => contexts[e.context].attempt = Len(e.delays)

(***************************************************************************)
(* Cancellation properties.                                                *)
(***************************************************************************)
\* C24: cancellation stops the merged stream. Once signal.aborted is true
\* during a merge, mergeStreamsWithMetadata yields no further event: no step
\* taken with the signal aborted makes the output longer.
C24_NoEventAfterAbort ==
    [][aborted => Len(mxOutput') = Len(mxOutput)]_vars

\* C25: cancellation reaches retry sleeps. An executeWithRetry call that is
\* sleeping in its backoff when the run's signal is aborted does not call
\* its operation again.
C25_CancelReachesSleeps ==
    [][\A c \in DOMAIN executions :
           (aborted /\ executions[c].pc = "backoff")
               => executions'[c].pc # "operation"]_vars

\* C26: cancellation is a normal terminal state. With the signal aborted,
\* mergeStreamsWithMetadata does not end by throwing to its consumer.
C26_AbortIsNotAnError == aborted => mxPc # "aborted"

(***************************************************************************)
(* GeminiClient properties.                                                *)
(***************************************************************************)
\* the positions <<p, e>> of a text where call<digits>: is written: call at
\* p, digits up to e - 1, the colon at e
MarkerSpans(t) ==
    {pe \in (1..Len(t)) \X (1..Len(t)) :
        /\ pe[1] + 4 < pe[2]
        /\ SubSeq(t, pe[1], pe[1] + 3) = <<"c", "a", "l", "l">>
        /\ \A k \in (pe[1] + 4)..(pe[2] - 1) : IsDigit(t[k])
        /\ t[pe[2]] = ":"}

HasMarker(t) == MarkerSpans(t) # {}

\* the sendMessageStream invocations in flight
StreamCalls ==
    {clientCalls[i] : i \in {j \in DOMAIN clientCalls : clientCalls[j].kind = "stream"}}

\* invocation f reached the routing step of line 372
Routed(f) == f.path \in {"concurrent", "sequential"}

\* on the sequential path, loopDetector.turnStarted has answered
TurnDecided(f) == f.pc # "turnStarted"

\* invocation f took the concurrent path as the claim describes it, the
\* request being req
TookConcurrentPath(f, req) ==
    /\ Len(f.concurrent) = 1
    /\ f.concurrent[1].calls = f.analysis.calls
    /\ f.analysis.calls # <<>>
    /\ \A k \in DOMAIN f.runs : f.runs[k].request # req

PassedThrough(f) ==
    \A k \in DOMAIN f.yielded :
        f.yielded[k].type = "content"
            => \E j \in DOMAIN TurnEvents : f.yielded[k] = TurnEvents[j]

\* C21 as stated: an invocation that reaches the routing step takes the
\* concurrent path (executeConcurrentStreams once with the parsed calls, no
\* Turn.run of the request) iff concurrency is enabled, the forced mode is
\* not 'sequential' and the request has a call marker; otherwise the
\* sequential path: one Turn.run with the original request, its events
\* passed through untagged, executeConcurrentStreams never called.
C21_Routing ==
    \A f \in StreamCalls :
        Routed(f) =>
            LET req == f.request
                concurrent == /\ clientConfig.concurrencyEnabled
                              /\ clientConfig.forcedMode # "sequential"
                              /\ HasMarker(partToString(req))
            IN  /\ f.path = "concurrent" <=> concurrent
                /\ f.path = "concurrent" => TookConcurrentPath(f, req)
                /\ f.path = "sequential" =>
                      /\ TurnDecided(f) => /\ Len(f.runs) = 1
                                           /\ f.runs[1].request = req
                      /\ PassedThrough(f)
                      /\ f.concurrent = <<>>

\* C21, amended: the same, for the request as it reaches the routing step
\* (the IDE context prepended in IDE mode), and on the sequential path with
\* one Turn.run of that request unless the loop detector reports a loop
\* when the turn starts, in which case no Turn is run and the invocation
\* yields LoopDetected and nothing else, but for the ChatCompressed event
\* before it when the invocation compressed the chat.
C21_RoutingOfRoutedRequest ==
    \A f \in StreamCalls :
        Routed(f) =>
            LET req == f.routed
                concurrent == /\ clientConfig.concurrencyEnabled
                              /\ clientConfig.forcedMode # "sequential"
                              /\ HasMarker(partToString(req))
                loopAtStart == f.yielded # <<>>
                               /\ f.yielded[Len(f.yielded)].type = "LoopDetected"
                               /\ f.received = 0
            IN  /\ f.path = "concurrent" <=> concurrent
                /\ f.path = "concurrent" => TookConcurrentPath(f, req)
                /\ f.path = "sequential" =>
                      /\ TurnDecided(f) =>
                             IF loopAtStart
                             THEN /\ f.runs = <<>>
                                  /\ Len(f.yielded) <= 2
                                  /\ Len(f.yielded) = 2 =>
                                         f.yielded[1].type = "ChatCompressed"
                             ELSE /\ Len(f.runs) = 1
                                  /\ f.runs[1].request = req
                      /\ ~TurnDecided(f) => f.runs = <<>>
                      /\ PassedThrough(f)
                      /\ f.concurrent = <<>>

\* a request with a call marker took the sequential path, with a Turn.run,
\* because the forced mode is 'sequential'
C21_Witness ==
    \E f \in StreamCalls :
        /\ f.path = "sequential"
        /\ clientConfig.concurrencyEnabled
        /\ clientConfig.forcedMode = "sequential"
        /\ HasMarker(partToString(f.routed))
        /\ Len(f.runs) = 1

\* C22: concurrency cap. On the concurrent path no more Turns are run than
\* getMaxConcurrentCalls(), and every call beyond the cap is answered by
\* one error event, yielded before the events of the calls that run.
C22_ConcurrencyCap ==
    \A f \in StreamCalls :
        f.path = "concurrent" =>
            LET cap == clientConfig.maxConcurrentCalls
                excess == IF Len(f.analysis.calls) > cap
                          THEN Len(f.analysis.calls) - cap ELSE 0
            IN  /\ Len(f.runs) <= cap
                /\ f.received > 0 =>
                       Cardinality({k \in DOMAIN f.yielded :
                                       f.yielded[k].type = "error"}) = excess

\* C23: one unit per call. executeConcurrentStreams creates one Turn per
\* call in call order, runs the i-th Turn with a request of the i-th call's
\* prompt alone and with the caller's signal, and gives mergeStreams the
\* streams of the runs, in order, in a single call; for no call, no Turn and
\* an empty stream list.
C23_OneUnitPerCall ==
    execution # NoExecution =>
        LET cs == execution.calls
        IN  /\ Len(execution.turns) = Len(cs)
            /\ Len(execution.runs) = Len(cs)
            /\ \A i \in DOMAIN cs :
                  /\ execution.runs[i].turn = i
                  /\ execution.runs[i].request = <<[text |-> cs[i].prompt]>>
                  /\ execution.runs[i].signal = execution.signal
            /\ execution.merges = << [i \in 1..Len(cs) |-> i] >>

C23_Witness ==
    /\ execution # NoExecution
    /\ Len(execution.calls) >= 2
    /\ execution.signal = "signal2"
    /\ execution.calls[1].prompt # execution.calls[2].prompt

\* the parts of a request that are call markers, and those that are blank
IsMarkerPart(req, i) == HasMarker(req[i].text)
IsBlankPart(req, i) ==
    /\ req[i].text # <<>>
    /\ \A k \in DOMAIN req[i].text : IsSpace(req[i].text[k])

\* the comma part that separates the marker part m from the segment before
\* it: the last part before m that is not blank, when it is a comma; else 0
SeparatorOf(req, m) ==
    LET before == {j \in 1..(m - 1) : ~IsBlankPart(req, j)}
    IN  IF before = {} THEN 0
        ELSE LET j == CHOOSE j \in before : \A k \in before : k <= j
             IN  IF req[j].text = <<",">> THEN j ELSE 0

MarkerParts(req) == {i \in DOMAIN req : IsMarkerPart(req, i)}

\* the request is k >= 1 comma-separated call<digits>: text segments after
\* an arbitrary text: every marker but the first follows a separating comma
WellFormed(req) ==
    /\ MarkerParts(req) # {}
    /\ \A m \in MarkerParts(req) :
          (\E n \in MarkerParts(req) : n < m) => SeparatorOf(req, m) # 0

\* where the text of the segment of marker part m ends: before the comma
\* that separates the next marker, or with the request
SegmentEnd(req, m) ==
    LET later == {n \in MarkerParts(req) : n > m}
    IN  IF later = {} THEN Len(req)
        ELSE SeparatorOf(req, CHOOSE n \in later : \A k \in later : n <= k) - 1

\* the calls of the segments from part i on: the marker without its colon,
\* and the trimmed text of the segment
RECURSIVE SegmentsFrom(_, _)
SegmentsFrom(req, i) ==
    IF i > Len(req) THEN <<>>
    ELSE IF IsMarkerPart(req, i)
    THEN << [id |-> SubSeq(req[i].text, 1, Len(req[i].text) - 1),
             prompt |-> trim(partToString(SubSeq(req, i + 1, SegmentEnd(req, i))))] >>
         \o SegmentsFrom(req, i + 1)
    ELSE SegmentsFrom(req, i + 1)

\* C27 as stated: for every request of k >= 1 comma-separated
\* call<digits>: text segments, after an arbitrary text, parseConcurrentSyntax
\* returns hasConcurrentCalls = true and the k calls in marker order, each
\* with its marker as id and its trimmed text, inner commas kept, as prompt.
C27_ParserCorrectness ==
    (analysis.parsed /\ WellFormed(request)) =>
        /\ analysis.hasConcurrentCalls
        /\ analysis.calls = SegmentsFrom(request, 1)

\* C27, amended: the same when concurrency is enabled and the forced
\* processing mode is not 'sequential'.
C27_ParserCorrectnessWhenEnabled ==
    (/\ analysis.parsed /\ WellFormed(request)
     /\ clientConfig.concurrencyEnabled
     /\ clientConfig.forcedMode # "sequential") =>
        /\ analysis.hasConcurrentCalls
        /\ analysis.calls = SegmentsFrom(request, 1)

\* two segments after a prefix were parsed, the first with a comma inside
C27_Witness ==
    /\ analysis.parsed /\ WellFormed(request)
    /\ clientConfig.concurrencyEnabled
    /\ clientConfig.forcedMode # "sequential"
    /\ Len(analysis.calls) = 2
    /\ ~IsMarkerPart(request, 1)
    /\ \E k \in DOMAIN analysis.calls[1].prompt : analysis.calls[1].prompt[k] = ","

\* C28: parser degradation. parseConcurrentSyntax returns hasConcurrentCalls
\* = true iff it returns at least one call, and for a request without any
\* call<digits>: marker it returns false and no call.
C28_ParserDegradation ==
    analysis.parsed =>
        /\ analysis.hasConcurrentCalls <=> analysis.calls # <<>>
        /\ ~HasMarker(partToString(request))
              => ~analysis.hasConcurrentCalls /\ analysis.calls = <<>>

\* a request with a marker that misses its colon was parsed with
\* concurrency enabled
C28_Witness ==
    /\ analysis.parsed
    /\ clientConfig.concurrencyEnabled
    /\ clientConfig.forcedMode # "sequential"
    /\ ~HasMarker(partToString(request))
    /\ \E i \in DOMAIN request : request[i].text = <<"c", "a", "l", "l", "1", " ", "x">>
    /\ analysis.calls = <<>>

\* C29: parser call boundaries. The prompt of a returned call ends where the
\* next call<digits>: marker starts: no prompt has a marker in it.
C29_CallBoundaries ==
    analysis.parsed =>
        \A i \in DOMAIN analysis.calls : ~HasMarker(analysis.calls[i].prompt)

\* C30: session turn limit. With getMaxSessionTurns() = M > 0, at most M
\* invocations run a Turn, and an invocation made with the session counter
\* over M yields one MaxSessionTurns event and nothing else.
C30_SessionTurnLimit ==
    clientConfig.maxSessionTurns > 0 =>
        /\ ranTurn <= clientConfig.maxSessionTurns
        /\ \A f \in StreamCalls :
               f.count > clientConfig.maxSessionTurns =>
                   /\ f.yielded = <<[type |-> "MaxSessionTurns"]>>
                   /\ f.runs = <<>>

\* M invocations ran a Turn and one more was made
C30_Witness ==
    /\ clientConfig.maxSessionTurns > 0
    /\ ranTurn = clientConfig.maxSessionTurns
    /\ \E f \in StreamCalls : f.count > clientConfig.maxSessionTurns

\* C31: the continuation loop is bounded. Whatever the turns argument, and
\* with the next-speaker check answering 'model' every time, one top-level
\* sendMessageStream call runs at most MAX_TURNS Turns.
C31_ContinuationBounded == ranTurn <= MAX_TURNS

\* C32: unit-exclusive state. The Turns created for the calls of one
\* concurrent request work on conversation histories of their own: no two of
\* them are given the same chat object.
C32_UnitExclusiveHistory ==
    execution # NoExecution =>
        \A i, j \in DOMAIN execution.turns :
            i # j => execution.turns[i].chat # execution.turns[j].chat

(***************************************************************************)
(* StreamAggregator: streams without metadata.                             *)
(***************************************************************************)
\* the id call<i> of position i
PositionId(i) ==
    IF i = 1 THEN "call1" ELSE IF i = 2 THEN "call2" ELSE IF i = 3 THEN "call3"
    ELSE "call4"

\* C33: missing metadata fallback. An event of the i-th stream, when the
\* aggregator has fewer than i calls, carries the callId call<i> and that id
\* as callTitle; an event of a stream with metadata carries the prompt of its
\* call as callTitle.
C33_MetadataFallback ==
    \A k \in DOMAIN output :
        LET i == origin[k][1]
        IN  IF i > Len(callMetadata)
            THEN /\ output[k].callId = PositionId(i)
                 /\ output[k].callTitle = output[k].callId
            ELSE MapGet(callMetadata, output[k].callId).prompt # ""
                     => output[k].callTitle
                            = MapGet(callMetadata, output[k].callId).prompt

\* C34: detection telemetry. An invocation that takes the concurrent path
\* calls logConcurrentSyntaxDetected once, with call_count the number of
\* parsed calls and the calls in parse order; an invocation made with
\* concurrency disabled, or that parses no call, does not call it.
C34_DetectionTelemetry ==
    \A f \in StreamCalls :
        f.path # "none" =>
            /\ f.path = "concurrent" =>
                  /\ Len(f.logged) = 1
                  /\ f.logged[1].call_count = Len(f.analysis.calls)
                  /\ f.logged[1].calls = f.analysis.calls
                  /\ f.logged[1].prompt_id = f.prompt_id
            /\ (~clientConfig.concurrencyEnabled \/ f.analysis.calls = <<>>)
                  => f.logged = <<>>

\* a concurrent invocation with two parsed calls has logged its event
C34_Witness ==
    \E f \in StreamCalls :
        /\ f.path = "concurrent"
        /\ Len(f.analysis.calls) = 2
        /\ Len(f.logged) = 1

\* C35: interleavedMerge, with the signal not aborted, yields every value of
\* every generator exactly once and in the generator's own order, and has
\* completed only with every value of every generator yielded: no value is
\* in the output more than once, the output values are the generators'
\* values, each generator's values are in the order it emitted them, and on
\* return all of them are in the output.
C35_InterleavedExactlyOnce ==
    ~aborted =>
        /\ \A i \in DOMAIN generators : \A n \in 1..Len(generators[i].events) :
              /\ Cardinality(Places(i, n)) <= 1
              /\ (mxPc = "returned" /\ generators[i].end = "done")
                    => Cardinality(Places(i, n)) = 1
        /\ \A k \in DOMAIN mxOutput :
              mxOutput[k] = generators[mxOrigin[k][1]].events[mxOrigin[k][2]]
        /\ \A k, l \in DOMAIN mxOutput :
              (k < l /\ mxOrigin[k][1] = mxOrigin[l][1])
                  => mxOrigin[k][2] < mxOrigin[l][2]

(***************************************************************************)
(* FileLockManager: locks, queues and callers.                             *)
(***************************************************************************)
\* C36: no orphan locks. Every entry of the lock map is a FileLock that an
\* acquireLock call was resolved with; none is recorded for a request whose
\* acquireLock rejected or is never resolved with it.
C36_NoOrphanLocks ==
    \A p \in Paths :
        isLocked(p) =>
            \E i \in DOMAIN acq : /\ acq[i].promise = "resolved"
                                  /\ acq[i].lockId = getLockInfo(p).lockId

\* every acquireLock call has resolved or rejected, and every caller that
\* was returned a FileLock has called releaseLock with its lockId
AllSettledAndReleased ==
    /\ acq # <<>>
    /\ \A i \in DOMAIN acq :
          /\ acq[i].promise \in {"resolved", "rejected"}
          /\ acq[i].promise = "resolved" => acq[i].released

\* C37: lock deadlock-freedom. When every acquireLock call has resolved or
\* rejected and every returned FileLock has been released, no path is left
\* locked.
C37_NoPathLeftLocked ==
    AllSettledAndReleased => \A p \in Paths : ~isLocked(p)

\* C38: the queue holds only pending requests. Every queued request belongs
\* to an acquireLock call that is still pending, and a call that has
\* resolved or rejected has no poll timer running.
C38_QueueHoldsPending ==
    \A i \in DOMAIN acq :
        /\ InQueue(i) => acq[i].promise = "pending"
        /\ acq[i].promise # "pending" => ~acq[i].interval


(***************************************************************************)
(* RetryManager: attempts against the configured maximum                   *)
(***************************************************************************)

\* C39: in every reachable state, overlapping executeWithRetry calls for one
\* callId included, the attempt field of the RetryContext a call works on is
\* between 0 and that call's maxRetries, and the call has invoked its
\* operation at most maxRetries + 1 times.
C39_AttemptBound ==
    \A c \in DOMAIN executions :
        /\ executions[c].invoked <= executions[c].retryConfig.maxRetries + 1
        /\ InFlight(c) =>
              /\ contexts[executions[c].context].attempt >= 0
              /\ contexts[executions[c].context].attempt
                     <= executions[c].retryConfig.maxRetries

(***************************************************************************)
(* GeminiClient: chat compression                                          *)
(***************************************************************************)

\* C40: compression is all-or-nothing. When tryCompressChat throws after it
\* has started (the summary request or the chat restart threw), the chat
\* history is what it was before the call; and a call that is not forced,
\* with a token count below 0.7 of the model's limit, returns null and leaves
\* the chat object and its history as they were.
C40_CompressionAllOrNothing ==
    (compression.called /\ ~compression.disturbed) =>
        /\ (compression.started /\ compression.outcome = "throws") =>
               compression.after.history = compression.before.history
        /\ ( /\ ~compression.force
             /\ compression.originalTokenCount # UndefinedCount
             /\ UnderThreshold(compression.originalTokenCount) ) =>
               /\ compression.outcome = "null"
               /\ compression.after = compression.before
====
